---- MODULE Spec2Model ----
(***************************************************************************)
(* Access-escrow engine of the capturegem protocol (Solana / Anchor).      *)
(*                                                                         *)
(* Every instruction is one atomic transaction: it either commits all of   *)
(* its token transfers and account writes, or it fails and the ledger      *)
(* keeps the state it had.  Each handler is an operator that returns the   *)
(* error the call ends with ("Ok" when it commits) and the state it        *)
(* commits; an action is one committed transaction, and a failed call is a *)
(* step that changes nothing.  `last` records the committed transaction    *)
(* and what it moved, so that properties can speak about single calls.     *)
(*                                                                         *)
(* Token accounts ("holdings") are modelled with their recorded owner,     *)
(* their mint and their balance; the token program's transfer and burn     *)
(* check mint, authority and balance the way SPL Token does.               *)
(***************************************************************************)
EXTENDS Integers, Sequences, FiniteSets, TLC

(***************************************************************************)
(* Bounds of the model.                                                    *)
(*                                                                         *)
(* TLC's integers are 32 bits wide, so the u64 range of the program is     *)
(* scaled down: U64_MAX stands for u64::MAX.  All checked arithmetic of    *)
(* the program is checked against it.                                      *)
(***************************************************************************)
U64_MAX == 1048575

MaxPurchases == 2

\* The number of harvest_fees calls and of fee deposits that commit in one run.
MaxHarvests == 2

\* The number of staking calls, harvests and fee deposits that commit in one
\* run.
MaxStakingCalls == 4

\* The tokens of the collection mint that the second staker starts with in
\* the runs that exercise staking.
SecondStakerBalance == 100

\* The tokens in the self-owned token account in those runs.
SelfOwnedBalance == 500

\* The tokens of each mint that the two purchasers start with.
InitialBalance == 1200

SmallInitialBalance == 0

(***************************************************************************)
(* Program constants.                                                      *)
(***************************************************************************)
ESCROW_EXPIRY_SECONDS == 24 * 3600

SPLIT_TO_STAKERS == 50

SPLIT_TO_PEERS_ESCROW == 50

SPLIT_PINNER == 50

SPLIT_OWNER == 20

SPLIT_PERFORMER == 20

SPLIT_STAKERS == 10

\* u128, 1e12 in the source; scaled with U64_MAX so that
\* u64 * REWARD_PRECISION stays far below U128_MAX, as in the program.
REWARD_PRECISION == 1000

U128_MAX == 2 * U64_MAX * REWARD_PRECISION

\* The bound on the peer list of release_escrow.
MAX_PEER_LIST_LENGTH == 3

(***************************************************************************)
(* Identities.                                                             *)
(***************************************************************************)
Purchasers == {"p1", "p2"}

Peers == {"w1", "w2"}

\* The signers of the staking instructions.
Stakers == {"p1", "p2"}

\* The signers of register_collection_host.
Pinners == {"w1"}

\* The CollectionState PDA, the wallet collection.owner and the
\* PerformerEscrow PDA of the collection.
CollectionPDA == "collection"

CollectionOwner == "owner"

PerformerEscrowPDA == "performer_escrow"

\* PDA [SEED_CLAIM_VAULT, collection].
ClaimVaultPDA == "claim_vault_pda"

\* GlobalState.admin.
Admin == "admin"

\* The ModTicket accounts.
Tickets == {"t1", "t2"}

Treasury == "treasury"

\* The CollectionStakingPool PDA of the collection.
StakingPoolPDA == "staking_pool"

\* PDA [SEED_ACCESS_ESCROW, purchaser, collection] (one collection).
AccessEscrowPDA(p) == "access_escrow:" \o p

\* collection.mint and a mint that is not the collection's.
CollectionMint == "mint"

OtherMint == "other_mint"

Mints == {CollectionMint, OtherMint}

\* collection.cid_hash and a hash that differs from it.
CollectionCidHash == "cid"

CidHashes == {CollectionCidHash, "other_cid"}

HoldingOwners ==
    Purchasers \cup Peers
        \cup {Treasury, StakingPoolPDA, CollectionPDA, CollectionOwner, PerformerEscrowPDA}
        \cup {ClaimVaultPDA}
        \cup {AccessEscrowPDA(p) : p \in Purchasers}

\* The token account of owner o for mint m: its address, and the owner and
\* mint recorded in it.
Holding(o, m) == [address |-> "token:" \o o \o ":" \o m, owner |-> o, mint |-> m]

\* A token account of the collection mint whose recorded owner is its own
\* address; its key pair can sign a transaction.
SelfOwned == [address |-> "self_owned", owner |-> "self_owned", mint |-> CollectionMint]

\* The token accounts that create_collection may record as
\* collection.claim_vault: one whose authority is the CollectionState PDA (not
\* its associated token account, which is the liquidity reserve) and the
\* associated token account of the claim vault PDA.
ClaimVaults ==
    {[address |-> "claim_vault", owner |-> CollectionPDA, mint |-> CollectionMint],
     Holding(ClaimVaultPDA, CollectionMint)}

Holdings == {Holding(o, m) : o \in HoldingOwners, m \in Mints} \cup {SelfOwned} \cup ClaimVaults

\* The accounts other than the fee payer whose key signs the transaction.
IsSigner(h) == h = SelfOwned

NoEscrow == [exists |-> FALSE]

NoTrust == [exists |-> FALSE]

NoPosition == [exists |-> FALSE]

NoPinner == [exists |-> FALSE]

NoTicket == [exists |-> FALSE]

\* create_collection(.., total_videos) with total_videos > 0 at time clock: the
\* fields of CollectionState that the one-time mint and the copyright claims
\* use.  claimed_bitmap is the set of the indices whose bit is set, and
\* bitmap_size the number of its bytes.
TotalVideos == 10

CLAIM_VAULT_VESTING_SECONDS == 6 * 30 * 86400

create_collection(claim_vault, total_videos, clock) ==
    [claim_vault |-> claim_vault, claim_deadline |-> clock + CLAIM_VAULT_VESTING_SECONDS,
     tokens_minted |-> FALSE, total_videos |-> total_videos,
     claim_vault_initial_amount |-> 0, bitmap_size |-> (total_videos + 7) \div 8,
     claimed_bitmap |-> {}]

\* A collection whose vesting period is over: it was created
\* CLAIM_VAULT_VESTING_SECONDS before time 0, its tokens were minted (the
\* claim vault received 1000 of them) and the unclaimed tokens were burned.
VestedCollection ==
    [create_collection(Holding(ClaimVaultPDA, CollectionMint), TotalVideos,
                       0 - CLAIM_VAULT_VESTING_SECONDS)
        EXCEPT !.tokens_minted = TRUE, !.claim_vault_initial_amount = 1000]

\* GlobalState as initialize_protocol leaves it (fee_basis_points is a
\* variable of its own).
InitialGlobalState == [admin |-> Admin, treasury |-> Treasury, updates_disabled |-> FALSE]

VARIABLES
    now,                \* Clock: unix_timestamp
    fee_basis_points,   \* GlobalState.fee_basis_points
    is_blacklisted,     \* CollectionState.is_blacklisted
    total_trust_score,  \* CollectionState.total_trust_score
    staking_pool,       \* CollectionStakingPool: total_staked, reward_per_token
    access_escrow,      \* AccessEscrow account per purchaser, or NoEscrow
    peer_trust,         \* PeerTrustState account per peer, or NoTrust
    cid_reveal,         \* the CidReveal accounts that exist: <<purchaser, pinner>>
    balance,            \* token balance of every holding
    supply,             \* token supply of every mint
    staker_position,    \* StakerPosition account per staker, or NoPosition
    collection_rewards, \* CollectionState: the reward accounting fields
    performer_escrow,   \* PerformerEscrow: balance
    pinner_state,       \* PinnerState account per pinner, or NoPinner
    ticket,             \* ModTicket account per ticket, or NoTicket
    global_state,       \* GlobalState: treasury, updates_disabled
    collection_claims,  \* CollectionState: the one-time mint and the claim vault
    created,            \* history: what each live escrow record was created with
    counters,           \* history: number of purchases so far
    last                \* history: the last transaction and its outcome

vars == <<now, fee_basis_points, is_blacklisted, total_trust_score, staking_pool,
          access_escrow, peer_trust, cid_reveal, balance, supply, staker_position,
          collection_rewards, performer_escrow, pinner_state, ticket, global_state,
          collection_claims, created, counters, last>>

\* The protocol's settings and the collection's one-time mint.
configuration == <<global_state, collection_claims>>

\* The accounts of the staking and fee accounting.
reward_accounts == <<staker_position, collection_rewards, performer_escrow, pinner_state>>

ledger == <<fee_basis_points, is_blacklisted, total_trust_score, staking_pool,
            access_escrow, peer_trust, cid_reveal, balance, supply, reward_accounts,
            ticket, configuration>>

(***************************************************************************)
(* Checked arithmetic (checked_mul, checked_add, checked_sub, checked_div): *)
(* the result, or Overflow.                                                *)
(***************************************************************************)
Overflow == -1

checked_mul(a, b, max) ==
    IF a = Overflow \/ b = Overflow THEN Overflow
    ELSE IF a = 0 \/ b = 0 THEN 0
    ELSE IF a > max \div b THEN Overflow
    ELSE a * b

checked_add(a, b, max) ==
    IF a = Overflow \/ b = Overflow THEN Overflow
    ELSE IF a > max - b THEN Overflow
    ELSE a + b

checked_sub(a, b) ==
    IF a = Overflow \/ b = Overflow THEN Overflow
    ELSE IF b > a THEN Overflow
    ELSE a - b

checked_div(a, b) ==
    IF a = Overflow \/ b = Overflow \/ b = 0 THEN Overflow
    ELSE a \div b

(***************************************************************************)
(* The token program (SPL Token): transfer_checked and burn.  Each returns *)
(* the error it fails with, or "Ok" and the new balances.                  *)
(***************************************************************************)
transfer_checked(bal, from, mint, to, authority, amount) ==
    IF from.mint # mint \/ to.mint # mint THEN [err |-> "MintMismatch", balance |-> bal]
    ELSE IF authority # from.owner THEN [err |-> "OwnerMismatch", balance |-> bal]
    ELSE IF bal[from] < amount THEN [err |-> "InsufficientTokenBalance", balance |-> bal]
    ELSE IF from = to THEN [err |-> "Ok", balance |-> bal]
    ELSE IF bal[to] + amount > U64_MAX THEN [err |-> "TokenOverflow", balance |-> bal]
    ELSE [err |-> "Ok",
          balance |-> [bal EXCEPT ![from] = @ - amount, ![to] = @ + amount]]

\* authority_signs: the authority account signs the transaction or is the
\* PDA the signer seeds of the call derive.
burn(bal, sup, mint, from, authority, authority_signs, amount) ==
    IF from.mint # mint THEN [err |-> "MintMismatch", balance |-> bal, supply |-> sup]
    ELSE IF authority # from.owner \/ ~authority_signs
        THEN [err |-> "OwnerMismatch", balance |-> bal, supply |-> sup]
    ELSE IF bal[from] < amount
        THEN [err |-> "InsufficientTokenBalance", balance |-> bal, supply |-> sup]
    ELSE [err |-> "Ok",
          balance |-> [bal EXCEPT ![from] = @ - amount],
          supply |-> [sup EXCEPT ![mint] = @ - amount]]

(***************************************************************************)
(* Initial state: the protocol is initialized with a fee of at most 100%,  *)
(* the collection and its staking pool exist, nothing is staked, no escrow *)
(* and no peer trust record exists yet.                                    *)
(***************************************************************************)
\* The initial configurations: <<fee_basis_points, donated>>, where donated
\* is the number of tokens that were sent to the token account of p1's escrow
\* PDA before any purchase (anyone may transfer tokens into a holding).
Configurations == {<<0, 0>>, <<200, 0>>, <<200, 40>>, <<10000, 40>>}

InitialBalanceOf(h, donated) ==
    IF h.owner = "p1" THEN InitialBalance
    ELSE IF h.owner = "p2" THEN SmallInitialBalance
    ELSE IF h = SelfOwned THEN 1
    ELSE IF h = Holding(AccessEscrowPDA("p1"), CollectionMint) THEN donated
    ELSE 0

RECURSIVE SetSum(_, _)
\* The sum of f[x] over the elements x of set.
SetSum(f, set) ==
    IF set = {} THEN 0
    ELSE LET x == CHOOSE y \in set : TRUE IN f[x] + SetSum(f, set \ {x})

\* All tokens of mint m, over every holding.
TotalTokens(bal, m) ==
    SetSum([h \in Holdings |-> IF h.mint = m THEN bal[h] ELSE 0], Holdings)

NoCall == [op |-> "none", caller |-> "", escrow |-> "", input |-> <<>>, out |-> <<>>]

NotCreated == [amount_locked |-> 0, created_at |-> 0, paid |-> 0, released |-> FALSE]

\* History: the number of purchases, of staking calls, of harvests and of fee
\* deposits so far, and the tokens credited to the staking pool and paid out
\* as staking rewards.
NoCounters ==
    [purchases |-> 0, staking_calls |-> 0, credited |-> 0, rewarded |-> 0,
     harvests |-> 0, deposits |-> 0]

\* The reward fields of a new CollectionState.
NoRewards ==
    [total_shares |-> 0, acc_reward_per_share |-> 0, reward_pool_balance |-> 0,
     owner_reward_balance |-> 0, staker_reward_balance |-> 0]

Init ==
    /\ now = 0
    /\ is_blacklisted = FALSE
    /\ total_trust_score = 0
    /\ staking_pool = [total_staked |-> 0, reward_per_token |-> 0]
    /\ access_escrow = [p \in Purchasers |-> NoEscrow]
    /\ peer_trust = [w \in Peers |-> NoTrust]
    /\ cid_reveal = {}
    /\ \E c \in Configurations :
          /\ fee_basis_points = c[1]
          /\ balance = [h \in Holdings |-> InitialBalanceOf(h, c[2])]
    /\ supply = [m \in Mints |-> TotalTokens(balance, m)]
    /\ staker_position = [s \in Stakers |-> NoPosition]
    /\ collection_rewards = NoRewards
    /\ performer_escrow = [balance |-> 0]
    /\ pinner_state = [w \in Peers |-> NoPinner]
    /\ ticket = [t \in Tickets |-> NoTicket]
    /\ global_state = InitialGlobalState
    /\ collection_claims = VestedCollection
    /\ created = [p \in Purchasers |-> NotCreated]
    /\ counters = NoCounters
    /\ last = NoCall

(***************************************************************************)
(* The clock only moves forward.                                           *)
(***************************************************************************)
ClockValues == {0, ESCROW_EXPIRY_SECONDS, ESCROW_EXPIRY_SECONDS + 1}

Tick ==
    /\ \E t \in ClockValues : t > now /\ now' = t
    /\ last' = [NoCall EXCEPT !.op = "tick"]
    /\ UNCHANGED <<ledger, created, counters>>

(***************************************************************************)
(* purchase_access(total_amount, cid_hash), signed by purchaser p, with    *)
(* the mint account collection_mint.  The account constraints pin the      *)
(* purchaser's, the pool's, the escrow's and the treasury's token account  *)
(* to their owner and to collection_mint; `init` of the AccessEscrow PDA   *)
(* fails when the account exists.                                          *)
(***************************************************************************)
\* account_in_use of an `init_if_needed` constraint.
account_never_in_use(escrow) == FALSE

\* The `init` constraint on the AccessEscrow PDA: creating an account that
\* already exists fails.
account_in_use(escrow) == escrow.exists

PurchaseFailed(e) ==
    [err |-> e, total_fee |-> 0, to_stakers |-> 0, to_escrow |-> 0,
     balance |-> balance, staking_pool |-> staking_pool, escrow |-> NoEscrow]

\* total_fee_of with the division rounding down.
total_fee_rounded_down(total_amount, bps) ==
    checked_div(checked_mul(total_amount, bps, U64_MAX), 10000)

\* Ceiling division of total_amount * fee_basis_points by 10000.
total_fee_of(total_amount, bps) ==
    checked_div(checked_add(checked_mul(total_amount, bps, U64_MAX), 10000 - 1, U64_MAX),
                10000)

amount_to_stakers_of(amount_after_fee) ==
    checked_div(checked_mul(amount_after_fee, SPLIT_TO_STAKERS, U64_MAX), 100)

amount_to_escrow_of(amount_after_fee) ==
    checked_div(checked_mul(amount_after_fee, SPLIT_TO_PEERS_ESCROW, U64_MAX), 100)

\* final_amount_to_stakers_of with the remainder dropped.
final_amount_to_stakers_without_remainder(amount_after_fee) ==
    amount_to_stakers_of(amount_after_fee)

\* amount_to_stakers plus the remainder of the two floor divisions.
final_amount_to_stakers_of(amount_after_fee) ==
    LET to_stakers == amount_to_stakers_of(amount_after_fee)
        to_escrow == amount_to_escrow_of(amount_after_fee)
        total_split == checked_add(to_stakers, to_escrow, U64_MAX)
        remainder == checked_sub(amount_after_fee, total_split)
    IN  checked_add(to_stakers, remainder, U64_MAX)

\* credit_staking_pool with the increment rounded up.
credit_staking_pool_rounding_up(pool, amount) ==
    IF pool.total_staked > 0
    THEN LET scaled == checked_mul(amount, REWARD_PRECISION, U128_MAX)
             reward_increment ==
                 checked_div(checked_add(scaled, pool.total_staked - 1, U128_MAX),
                             pool.total_staked)
             rpt == checked_add(pool.reward_per_token, reward_increment, U128_MAX)
         IN  [pool EXCEPT !.reward_per_token = rpt]
    ELSE pool

\* The staking pool after amount is credited to it.
credit_staking_pool(pool, amount) ==
    IF pool.total_staked > 0
    THEN LET reward_increment ==
                 checked_div(checked_mul(amount, REWARD_PRECISION, U128_MAX),
                             pool.total_staked)
             rpt == checked_add(pool.reward_per_token, reward_increment, U128_MAX)
         IN  [pool EXCEPT !.reward_per_token = rpt]
    ELSE pool

\* cid_hash_matches without the comparison.
cid_hash_unchecked(cid_hash) == TRUE

\* The comparison of the cid_hash argument with collection.cid_hash.
cid_hash_matches(cid_hash) == cid_hash = CollectionCidHash

purchase_access(p, total_amount, cid_hash, collection_mint) ==
    LET from == Holding(p, collection_mint)
        total_fee == total_fee_of(total_amount, fee_basis_points)
        amount_after_fee == checked_sub(total_amount, total_fee)
        amount_to_escrow == amount_to_escrow_of(amount_after_fee)
        final_to_stakers == final_amount_to_stakers_of(amount_after_fee)
        t_fee == IF total_fee > 0
                 THEN transfer_checked(balance, from, collection_mint,
                                       Holding(global_state.treasury, collection_mint), p,
                                       total_fee)
                 ELSE [err |-> "Ok", balance |-> balance]
        t_pool == transfer_checked(t_fee.balance, from, collection_mint,
                                   Holding(StakingPoolPDA, collection_mint), p,
                                   final_to_stakers)
        pool == credit_staking_pool(staking_pool, final_to_stakers)
        t_escrow == transfer_checked(t_pool.balance, from, collection_mint,
                                     Holding(AccessEscrowPDA(p), collection_mint), p,
                                     amount_to_escrow)
    IN  IF account_in_use(access_escrow[p]) THEN PurchaseFailed("AccountAlreadyInUse")
        ELSE IF ~(total_amount > 0) THEN PurchaseFailed("InsufficientFunds")
        ELSE IF is_blacklisted THEN PurchaseFailed("Unauthorized")
        ELSE IF ~cid_hash_matches(cid_hash) THEN PurchaseFailed("Unauthorized")
        ELSE IF Overflow \in {total_fee, amount_after_fee, amount_to_escrow, final_to_stakers}
            THEN PurchaseFailed("MathOverflow")
        ELSE IF t_fee.err # "Ok" THEN PurchaseFailed(t_fee.err)
        ELSE IF t_pool.err # "Ok" THEN PurchaseFailed(t_pool.err)
        ELSE IF pool.reward_per_token = Overflow THEN PurchaseFailed("MathOverflow")
        ELSE IF t_escrow.err # "Ok" THEN PurchaseFailed(t_escrow.err)
        ELSE [err |-> "Ok", total_fee |-> total_fee, to_stakers |-> final_to_stakers,
              to_escrow |-> amount_to_escrow,
              balance |-> t_escrow.balance, staking_pool |-> pool,
              escrow |-> [exists |-> TRUE, purchaser |-> p, cid_hash |-> cid_hash,
                          amount_locked |-> amount_to_escrow, created_at |-> now,
                          is_cid_revealed |-> FALSE]]

PurchaseAmounts == {0, 3, 1000, U64_MAX}

PurchaseAccess ==
    /\ counters.purchases < MaxPurchases
    /\ \E p \in Purchasers, total_amount \in PurchaseAmounts,
          cid_hash \in CidHashes, collection_mint \in {CollectionMint} :
          LET r == purchase_access(p, total_amount, cid_hash, collection_mint)
          IN  /\ r.err = "Ok"
              /\ last' = [NoCall EXCEPT !.op = "purchase_access", !.caller = p, !.escrow = p,
                             !.input = [total_amount |-> total_amount,
                                        cid_hash |-> cid_hash, mint |-> collection_mint],
                             !.out = [total_fee |-> r.total_fee, to_stakers |-> r.to_stakers,
                                      to_escrow |-> r.to_escrow]]
              /\ balance' = r.balance
              /\ staking_pool' = r.staking_pool
              /\ access_escrow' = [access_escrow EXCEPT ![p] = r.escrow]
              /\ created' = [created EXCEPT ![p] =
                                [amount_locked |-> r.to_escrow, created_at |-> now,
                                 paid |-> 0, released |-> FALSE]]
              /\ counters' = [counters EXCEPT !.purchases = @ + 1,
                                              !.credited = @ + r.to_stakers]
              /\ UNCHANGED <<reward_accounts, ticket, configuration, now, fee_basis_points, is_blacklisted,
                             total_trust_score, peer_trust, cid_reveal, supply>>

(***************************************************************************)
(* create_access_escrow(amount_locked, cid_hash, access_nft_mint), the     *)
(* legacy purchase: both token accounts are unchecked accounts.            *)
(***************************************************************************)
create_access_escrow(p, amount_locked, cid_hash, from, to, collection_mint) ==
    LET t == transfer_checked(balance, from, collection_mint, to, p, amount_locked)
    IN  IF account_in_use(access_escrow[p]) THEN PurchaseFailed("AccountAlreadyInUse")
        ELSE IF ~(amount_locked > 0) THEN PurchaseFailed("InsufficientFunds")
        ELSE IF is_blacklisted THEN PurchaseFailed("Unauthorized")
        ELSE IF cid_hash # CollectionCidHash THEN PurchaseFailed("Unauthorized")
        ELSE IF t.err # "Ok" THEN PurchaseFailed(t.err)
        ELSE [err |-> "Ok", total_fee |-> 0, to_stakers |-> 0, to_escrow |-> amount_locked,
              balance |-> t.balance, staking_pool |-> staking_pool,
              escrow |-> [exists |-> TRUE, purchaser |-> p, cid_hash |-> cid_hash,
                          amount_locked |-> amount_locked, created_at |-> now,
                          is_cid_revealed |-> FALSE]]

LegacyAmounts == {0, 100}

\* The token accounts a purchaser passes as the destination of the legacy
\* purchase: the escrow's own holding, or the purchaser's own.
LegacyDestinations(p, m) == {Holding(AccessEscrowPDA(p), m)}

CreateAccessEscrow ==
    /\ counters.purchases < MaxPurchases
    /\ \E p \in Purchasers, amount_locked \in LegacyAmounts, cid_hash \in CidHashes,
          collection_mint \in Mints :
         \E to \in LegacyDestinations(p, collection_mint) :
          LET r == create_access_escrow(p, amount_locked, cid_hash,
                                        Holding(p, collection_mint), to, collection_mint)
          IN  /\ r.err = "Ok"
              /\ last' = [NoCall EXCEPT !.op = "create_access_escrow", !.caller = p,
                             !.escrow = p,
                             !.input = [amount_locked |-> amount_locked,
                                        cid_hash |-> cid_hash, mint |-> collection_mint,
                                        to |-> to],
                             !.out = [total_fee |-> r.total_fee, to_stakers |-> r.to_stakers,
                                      to_escrow |-> r.to_escrow]]
              /\ balance' = r.balance
              /\ access_escrow' = [access_escrow EXCEPT ![p] = r.escrow]
              /\ created' = [created EXCEPT ![p] =
                                [amount_locked |-> r.to_escrow, created_at |-> now,
                                 paid |-> 0, released |-> FALSE]]
              /\ counters' = [counters EXCEPT !.purchases = @ + 1]
              /\ UNCHANGED <<reward_accounts, ticket, configuration, now, fee_basis_points,
                             is_blacklisted, staking_pool, total_trust_score, peer_trust,
                             cid_reveal, supply>>

(***************************************************************************)
(* initialize_peer_trust_state, signed by the peer: `init` of the          *)
(* PeerTrustState PDA [SEED_PEER_TRUST, peer].                             *)
(***************************************************************************)
initialize_peer_trust_state(w) ==
    IF peer_trust[w].exists THEN [err |-> "AccountAlreadyInUse", state |-> peer_trust[w]]
    ELSE [err |-> "Ok",
          state |-> [exists |-> TRUE, peer_wallet |-> w, total_successful_serves |-> 0,
                     trust_score |-> 0, last_active |-> now]]

InitializePeerTrustState ==
    \E w \in Peers :
        LET r == initialize_peer_trust_state(w)
        IN  /\ r.err = "Ok"
            /\ last' = [NoCall EXCEPT !.op = "initialize_peer_trust_state", !.caller = w]
            /\ peer_trust' = [peer_trust EXCEPT ![w] = r.state]
            /\ UNCHANGED <<reward_accounts, ticket, configuration, now, fee_basis_points,
                           is_blacklisted, total_trust_score, staking_pool, access_escrow,
                           cid_reveal, balance, supply, created, counters>>

(***************************************************************************)
(* release_escrow(peer_wallets, peer_weights), signed by purchaser q for   *)
(* the AccessEscrow account of purchaser e.  remaining_accounts holds, for *)
(* each peer, a token account and a PeerTrustState account (named here by  *)
(* the peer whose PDA it is); escrow_token_account is an unchecked account *)
(* and collection_mint any mint account.                                   *)
(***************************************************************************)
RECURSIVE SeqSum(_)
SeqSum(seq) == IF seq = <<>> THEN 0 ELSE Head(seq) + SeqSum(Tail(seq))

\* The build profile: arithmetic overflow outside the checked_* calls aborts
\* the transaction rather than wrapping.
overflow_checks == TRUE

\* Iterator::sum over u64.
iter_sum(weights) ==
    IF SeqSum(weights) <= U64_MAX THEN SeqSum(weights)
    ELSE IF overflow_checks THEN Overflow
    ELSE SeqSum(weights) % (U64_MAX + 1)

\* The state the peer loop carries from one peer to the next.
\* rolled_back with the handler's writes kept.
not_rolled_back(before, partial) == partial

\* The accounts after the handler has returned an error: the transaction is
\* rolled back, so they are as before the call.
rolled_back(before, partial) == before

LoopStart ==
    [err |-> "Ok", balance |-> balance, peer_trust |-> peer_trust, total_sent |-> 0,
     paid |-> <<>>]

LoopFailed(acc, e) == [acc EXCEPT !.err = e]

\* peer_share_of with the division rounding up.
peer_share_rounded_up(amount_locked, weight, total_weight) ==
    checked_div(checked_add(checked_mul(amount_locked, weight, U64_MAX),
                            total_weight - 1, U64_MAX),
                total_weight)

\* The share of one peer before the clamp to the remaining balance.
peer_share_of(amount_locked, weight, total_weight) ==
    checked_div(checked_mul(amount_locked, weight, U64_MAX), total_weight)

\* The amount sent to one peer.
peer_amount_of(peer_share, remaining_balance) ==
    IF peer_share > remaining_balance THEN remaining_balance ELSE peer_share

\* The checks on the destination token account of a paid peer.
peer_token_account_ok(token_account, peer_wallet, mint_key) ==
    /\ token_account.owner = peer_wallet
    /\ token_account.mint = mint_key

\* updated_trust_state that leaves last_active as it was.
updated_trust_state_keeping_time(state, weight, clock) ==
    [state EXCEPT !.total_successful_serves = checked_add(@, 1, U64_MAX),
                  !.trust_score = checked_add(@, weight, U64_MAX)]

\* A PeerTrustState after one more paid release.
updated_trust_state(state, weight, clock) ==
    [state EXCEPT !.total_successful_serves = checked_add(@, 1, U64_MAX),
                  !.trust_score = checked_add(@, weight, U64_MAX),
                  !.last_active = clock]

\* One iteration of the loop over the peers.
pay_peer(acc, e, inp, i, amount_locked, total_weight) ==
    LET peer_wallet == inp.peer_wallets[i]
        weight == inp.peer_weights[i]
        peer_share == peer_share_of(amount_locked, weight, total_weight)
        remaining_balance == checked_sub(amount_locked, acc.total_sent)
        peer_amount == peer_amount_of(peer_share, remaining_balance)
        token_account == inp.remaining_accounts[i].token
        trust_pda == inp.remaining_accounts[i].trust
        trust_account == acc.peer_trust[trust_pda]
        state == updated_trust_state(trust_account, weight, now)
        trust == IF trust_account.exists
                 THEN [acc.peer_trust EXCEPT ![trust_pda] = state]
                 ELSE acc.peer_trust
        t == transfer_checked(acc.balance, inp.escrow_token_account, inp.collection_mint,
                              token_account, AccessEscrowPDA(e), peer_amount)
        total_sent == checked_add(acc.total_sent, peer_amount, U64_MAX)
    IN  IF peer_share = Overflow \/ remaining_balance = Overflow
            THEN LoopFailed(acc, "MathOverflow")
        ELSE IF ~(peer_amount > 0) THEN [acc EXCEPT !.paid = Append(@, 0)]
        ELSE IF ~peer_token_account_ok(token_account, peer_wallet, inp.collection_mint)
            THEN LoopFailed(acc, "Unauthorized")
        \* the PeerTrustState account must be the peer's PDA, owned by the program
        ELSE IF trust_pda # peer_wallet THEN LoopFailed(acc, "Unauthorized")
        ELSE IF ~trust_account.exists THEN LoopFailed(acc, "Unauthorized")
        ELSE IF trust_account.exists /\ trust_account.peer_wallet # peer_wallet
            THEN LoopFailed(acc, "Unauthorized")
        ELSE IF trust_account.exists
                /\ Overflow \in {state.total_successful_serves, state.trust_score}
            THEN LoopFailed(acc, "MathOverflow")
        ELSE IF t.err # "Ok" THEN LoopFailed(acc, t.err)
        ELSE IF total_sent = Overflow THEN LoopFailed(acc, "MathOverflow")
        ELSE [err |-> "Ok", balance |-> t.balance, peer_trust |-> trust,
              total_sent |-> total_sent, paid |-> Append(acc.paid, peer_amount)]

RECURSIVE pay_peers(_, _, _, _, _)
\* The loop over peers i..n, in list order; it stops at the first error.
pay_peers(acc, e, inp, i, total_weight) ==
    IF acc.err # "Ok" \/ i > Len(inp.peer_wallets) THEN acc
    ELSE pay_peers(pay_peer(acc, e, inp, i, access_escrow[e].amount_locked, total_weight),
                   e, inp, i + 1, total_weight)

\* peer_lists_ok without the check.
peer_lists_unchecked(peer_wallets, peer_weights) == TRUE

\* The first check on the two lists.
peer_lists_ok(peer_wallets, peer_weights) ==
    Len(peer_wallets) = Len(peer_weights) /\ peer_wallets # <<>>

\* released_escrow without the reset of amount_locked.
released_escrow_keeping_amount(escrow) == escrow

\* The AccessEscrow account after a release.
released_escrow(escrow) == [escrow EXCEPT !.amount_locked = 0]

ReleaseFailed(e, err) ==
    [err |-> err, balance |-> balance, peer_trust |-> peer_trust,
     total_trust_score |-> total_trust_score, escrow |-> access_escrow[e], paid |-> <<>>]

\* The expiry check of release_escrow.
release_in_time(clock, created_at) == clock - created_at <= ESCROW_EXPIRY_SECONDS

release_escrow(q, e, inp) ==
    LET escrow == access_escrow[e]
        total_weight == iter_sum(inp.peer_weights)
        loop == pay_peers(LoopStart, e, inp, 1, total_weight)
        score == checked_add(total_trust_score, total_weight, U64_MAX)
    IN  IF ~escrow.exists THEN ReleaseFailed(e, "AccountNotInitialized")
        ELSE IF q # e THEN ReleaseFailed(e, "ConstraintSeeds")
        ELSE IF escrow.purchaser # q THEN ReleaseFailed(e, "Unauthorized")
        ELSE IF ~peer_lists_ok(inp.peer_wallets, inp.peer_weights)
            THEN ReleaseFailed(e, "InvalidFeeConfig")
        ELSE IF ~(Len(inp.peer_wallets) <= MAX_PEER_LIST_LENGTH)
            THEN ReleaseFailed(e, "PeerListTooLong")
        ELSE IF ~release_in_time(now, escrow.created_at) THEN ReleaseFailed(e, "EscrowExpired")
        ELSE IF ~(escrow.amount_locked > 0) THEN ReleaseFailed(e, "InsufficientFunds")
        ELSE IF total_weight = Overflow THEN ReleaseFailed(e, "Panic")
        ELSE IF ~(total_weight > 0) THEN ReleaseFailed(e, "InvalidFeeConfig")
        ELSE IF ~(Len(inp.remaining_accounts) >= Len(inp.peer_wallets))
            THEN ReleaseFailed(e, "InvalidFeeConfig")
        ELSE IF loop.err # "Ok"
            THEN rolled_back(ReleaseFailed(e, loop.err),
                             [ReleaseFailed(e, loop.err) EXCEPT !.balance = loop.balance,
                                                                !.peer_trust = loop.peer_trust])
        ELSE IF score = Overflow
            THEN rolled_back(ReleaseFailed(e, "MathOverflow"),
                             [ReleaseFailed(e, "MathOverflow")
                                 EXCEPT !.balance = loop.balance,
                                        !.peer_trust = loop.peer_trust])
        ELSE [err |-> "Ok", balance |-> loop.balance, peer_trust |-> loop.peer_trust,
              total_trust_score |-> score, escrow |-> released_escrow(escrow),
              paid |-> loop.paid]

\* The tokens that the holdings of bal2 gained over bal.
credited(bal, bal2) ==
    SetSum([h \in Holdings |-> IF bal2[h] > bal[h] THEN bal2[h] - bal[h] ELSE 0], Holdings)

\* The accounts a client passes for the peers ws when it follows the
\* protocol: each peer's own token account of mint m and each peer's
\* PeerTrustState PDA.
PeerAccounts(ws, m) ==
    [i \in 1..Len(ws) |-> [token |-> Holding(ws[i], m), trust |-> ws[i]]]

ReleaseInput(e, ws, wts, m) ==
    [peer_wallets |-> ws, peer_weights |-> wts, remaining_accounts |-> PeerAccounts(ws, m),
     escrow_token_account |-> Holding(AccessEscrowPDA(e), m), collection_mint |-> m]

\* Peer lists and weight lists of equal length.
PeerLists ==
    { <<<<"w1">>, <<1>>>>,
      <<<<"w1", "w2">>, <<0, 1>>>>,
      <<<<"w1", "w2">>, <<2, 1>>>>,
      <<<<"w1", "w2", "w1">>, <<1, 1, 1>>>>,
      <<<<"w1">>, <<0>>>>,
      <<<<"w2">>, <<U64_MAX>>>>,
      <<<<"w1", "w2">>, <<U64_MAX, 1>>>> }

\* Calls that follow the protocol, with either mint account.
WellFormedReleases(e) ==
    {ReleaseInput(e, x[1][1], x[1][2], x[2]) : x \in PeerLists \X Mints}

\* Calls that deviate from the protocol in one place.
MalformedReleases(e) ==
    LET ok == ReleaseInput(e, <<"w1", "w2">>, <<1, 1>>, CollectionMint)
    IN  { ReleaseInput(e, <<>>, <<>>, CollectionMint),
          ReleaseInput(e, <<"w1">>, <<1, 1>>, CollectionMint),
          ReleaseInput(e, <<"w1", "w2", "w1", "w2">>, <<1, 1, 1, 1>>, CollectionMint),
          \* a destination owned by another wallet than the listed peer
          [ok EXCEPT !.remaining_accounts[2].token = Holding("w1", CollectionMint)],
          [ok EXCEPT !.remaining_accounts[1].token = Holding(e, CollectionMint)],
          \* a destination of another mint than the mint account passed
          [ok EXCEPT !.remaining_accounts[2].token = Holding("w2", OtherMint)],
          \* the PeerTrustState of another peer
          [ok EXCEPT !.remaining_accounts[2].trust = "w1"],
          \* fewer accounts than peers
          [ok EXCEPT !.remaining_accounts = SubSeq(@, 1, 1)],
          \* a source that the escrow PDA does not own
          [ok EXCEPT !.escrow_token_account = Holding(e, CollectionMint)],
          [ok EXCEPT !.escrow_token_account = SelfOwned] }

ReleaseInputs(e) == WellFormedReleases(e) \cup MalformedReleases(e)

ReleaseEscrow ==
    \E q \in Purchasers, e \in Purchasers :
      \E inp \in ReleaseInputs(e) :
          LET r == release_escrow(q, e, inp)
          IN  /\ r.err = "Ok"
              /\ last' = [NoCall EXCEPT !.op = "release_escrow", !.caller = q, !.escrow = e,
                             !.input = inp,
                             !.out = [paid |-> r.paid,
                                      amount_locked |-> access_escrow[e].amount_locked]]
              /\ balance' = r.balance
              /\ peer_trust' = r.peer_trust
              /\ total_trust_score' = r.total_trust_score
              /\ access_escrow' = [access_escrow EXCEPT ![e] = r.escrow]
              /\ created' = [created EXCEPT ![e].paid = @ + credited(balance, r.balance),
                                            ![e].released = TRUE]
              /\ UNCHANGED <<reward_accounts, ticket, configuration, now, fee_basis_points,
                             is_blacklisted, staking_pool, cid_reveal, supply, counters>>

(***************************************************************************)
(* burn_expired_escrow, signed by any caller, for the AccessEscrow account *)
(* of purchaser e.  escrow_token_account is an unchecked account; the mint *)
(* account is constrained to collection.mint.  The account is closed on    *)
(* success.                                                                *)
(***************************************************************************)
BurnFailed(e) == [err |-> e, balance |-> balance, supply |-> supply, burned |-> 0]

\* The expiry check of burn_expired_escrow.
burn_after_expiry(clock, created_at) == clock - created_at > ESCROW_EXPIRY_SECONDS

\* The authority account of the burn instruction.
burn_authority(escrow_token_account, e) == escrow_token_account.address

burn_expired_escrow(e, escrow_token_account) ==
    LET escrow == access_escrow[e]
        actual_balance == balance[escrow_token_account]
        authority == burn_authority(escrow_token_account, e)
        b == burn(balance, supply, CollectionMint, escrow_token_account, authority,
                  IsSigner(escrow_token_account) \/ authority = AccessEscrowPDA(e),
                  actual_balance)
    IN  IF ~escrow.exists THEN BurnFailed("AccountNotInitialized")
        ELSE IF ~burn_after_expiry(now, escrow.created_at) THEN BurnFailed("EscrowNotExpired")
        ELSE IF ~(actual_balance > 0) THEN BurnFailed("InsufficientFunds")
        ELSE IF b.err # "Ok" THEN BurnFailed(b.err)
        ELSE [err |-> "Ok", balance |-> b.balance, supply |-> b.supply,
              burned |-> actual_balance]

BurnCallers == {"p1", "w1"}

\* The token accounts a caller passes as escrow_token_account.
BurnSources(e) ==
    {Holding(AccessEscrowPDA(e), m) : m \in Mints}
        \cup {SelfOwned, Holding(e, CollectionMint), Holding(StakingPoolPDA, CollectionMint)}

BurnExpiredEscrow ==
    \E caller \in BurnCallers, e \in Purchasers :
      \E escrow_token_account \in BurnSources(e) :
        LET r == burn_expired_escrow(e, escrow_token_account)
        IN  /\ r.err = "Ok"
            /\ last' = [NoCall EXCEPT !.op = "burn_expired_escrow", !.caller = caller,
                           !.escrow = e,
                           !.input = [escrow_token_account |-> escrow_token_account],
                           !.out = [burned |-> r.burned]]
            /\ balance' = r.balance
            /\ supply' = r.supply
            /\ access_escrow' = [access_escrow EXCEPT ![e] = NoEscrow]
            /\ created' = [created EXCEPT ![e] = NotCreated]
            /\ UNCHANGED <<reward_accounts, ticket, configuration, now, fee_basis_points,
                           is_blacklisted, staking_pool, total_trust_score, peer_trust,
                           cid_reveal, counters>>

(***************************************************************************)
(* reveal_cid(encrypted_cid), signed by a pinner, for the AccessEscrow     *)
(* account of purchaser e: `init` of the CidReveal PDA of escrow and       *)
(* pinner.                                                                 *)
(***************************************************************************)
reveal_cid(pinner, e, encrypted_cid_len) ==
    IF ~access_escrow[e].exists THEN "AccountNotInitialized"
    ELSE IF access_escrow[e].is_cid_revealed THEN "Unauthorized"
    ELSE IF <<e, pinner>> \in cid_reveal THEN "AccountAlreadyInUse"
    ELSE IF encrypted_cid_len = 0 THEN "InvalidFeeConfig"
    ELSE IF ~(encrypted_cid_len <= 200) THEN "InvalidFeeConfig"
    ELSE "Ok"

EncryptedCidLengths == {0, 100, 201}

\* revealed_escrow that also restarts the expiry period.
revealed_escrow_restarting_expiry(escrow) ==
    [escrow EXCEPT !.is_cid_revealed = TRUE, !.created_at = now]

\* The AccessEscrow account after reveal_cid.
revealed_escrow(escrow) == [escrow EXCEPT !.is_cid_revealed = TRUE]

RevealCid ==
    \E pinner \in Pinners, e \in Purchasers, len \in EncryptedCidLengths :
        /\ reveal_cid(pinner, e, len) = "Ok"
        /\ last' = [NoCall EXCEPT !.op = "reveal_cid", !.caller = pinner, !.escrow = e]
        /\ access_escrow' = [access_escrow EXCEPT ![e] = revealed_escrow(@)]
        /\ cid_reveal' = cid_reveal \cup {<<e, pinner>>}
        /\ UNCHANGED <<reward_accounts, ticket, configuration, now, fee_basis_points, is_blacklisted,
                       staking_pool, total_trust_score, peer_trust, balance, supply,
                       created, counters>>

(***************************************************************************)
(* Collection token staking.  stake_collection_tokens(amount),             *)
(* claim_staking_rewards and unstake_collection_tokens(amount) are signed  *)
(* by the staker s; the StakerPosition PDA is derived from the staker, the *)
(* two token accounts are unchecked accounts and collection_mint is any    *)
(* mint account.  The CollectionStakingPool account exists.                *)
(***************************************************************************)
StakeFailed(s, e) ==
    [err |-> e, balance |-> balance, staking_pool |-> staking_pool,
     position |-> staker_position[s], pending_tokens |-> 0, transferred |-> 0]

\* amount_staked * reward_per_token - reward_debt, in u128.
pending_of(position, pool) ==
    checked_sub(checked_mul(position.amount_staked, pool.reward_per_token, U128_MAX),
                position.reward_debt)

\* (pending / REWARD_PRECISION) as u64.
pending_tokens_of(pending) == (pending \div REWARD_PRECISION) % (U64_MAX + 1)

\* reward_debt_of that keeps the debt the position had.
reward_debt_kept(position, pool) == position.reward_debt

\* The reward debt a position is left with.
reward_debt_of(position, pool) ==
    checked_mul(position.amount_staked, pool.reward_per_token, U128_MAX)

\* The StakerPosition account after `init_if_needed`.
position_if_needed(position, s) ==
    IF position.exists THEN position
    ELSE [exists |-> TRUE, staker |-> s, amount_staked |-> 0, reward_debt |-> 0]

stake_collection_tokens(s, amount, staker_token_account, pool_token_account, collection_mint) ==
    LET position == position_if_needed(staker_position[s], s)
        pending == pending_of(position, staking_pool)
        t == transfer_checked(balance, staker_token_account, collection_mint,
                              pool_token_account, s, amount)
        total_staked == checked_add(staking_pool.total_staked, amount, U64_MAX)
        amount_staked == checked_add(position.amount_staked, amount, U64_MAX)
        staked == [position EXCEPT !.amount_staked = amount_staked]
        reward_debt == reward_debt_of(staked, staking_pool)
    IN  IF ~(amount > 0) THEN StakeFailed(s, "InsufficientFunds")
        ELSE IF position.amount_staked > 0 /\ pending = Overflow
            THEN StakeFailed(s, "MathOverflow")
        ELSE IF t.err # "Ok" THEN StakeFailed(s, t.err)
        ELSE IF Overflow \in {total_staked, amount_staked, reward_debt}
            THEN StakeFailed(s, "MathOverflow")
        ELSE [err |-> "Ok", balance |-> t.balance,
              staking_pool |-> [staking_pool EXCEPT !.total_staked = total_staked],
              position |-> [staked EXCEPT !.reward_debt = reward_debt],
              \* the pending reward is logged, not transferred
              pending_tokens |-> IF position.amount_staked > 0
                                 THEN pending_tokens_of(pending) ELSE 0,
              transferred |-> amount]

\* The authority account of the transfer out of pool_token_account.
pool_transfer_authority(pool_token_account) == pool_token_account.address

\* The transfer out of pool_token_account in claim_staking_rewards and
\* unstake_collection_tokens: the signer seeds are those of the staking pool
\* PDA.
transfer_from_pool(bal, pool_token_account, mint, to, amount) ==
    LET authority == pool_transfer_authority(pool_token_account)
        t == transfer_checked(bal, pool_token_account, mint, to, authority, amount)
    IN  IF t.err # "Ok" THEN t
        ELSE IF ~(IsSigner(pool_token_account) \/ authority = StakingPoolPDA)
            THEN [err |-> "MissingRequiredSignature", balance |-> bal]
        ELSE t

claim_staking_rewards(s, staker_token_account, pool_token_account, collection_mint) ==
    LET position == staker_position[s]
        pending == pending_of(position, staking_pool)
        pending_tokens == pending_tokens_of(pending)
        t == transfer_from_pool(balance, pool_token_account, collection_mint,
                                staker_token_account, pending_tokens)
        reward_debt == reward_debt_of(position, staking_pool)
    IN  IF ~position.exists THEN StakeFailed(s, "AccountNotInitialized")
        ELSE IF ~(position.amount_staked > 0) THEN StakeFailed(s, "InsufficientFunds")
        ELSE IF pending = Overflow THEN StakeFailed(s, "MathOverflow")
        ELSE IF ~(pending_tokens > 0) THEN StakeFailed(s, "InsufficientFunds")
        ELSE IF t.err # "Ok" THEN StakeFailed(s, t.err)
        ELSE IF reward_debt = Overflow THEN StakeFailed(s, "MathOverflow")
        ELSE [err |-> "Ok", balance |-> t.balance, staking_pool |-> staking_pool,
              position |-> [position EXCEPT !.reward_debt = reward_debt],
              pending_tokens |-> pending_tokens, transferred |-> pending_tokens]

\* unstaked_pool that keeps total_staked.
unstaked_pool_keeping_total(pool, amount) == pool

\* The staking pool after amount is unstaked.
unstaked_pool(pool, amount) ==
    [pool EXCEPT !.total_staked = checked_sub(@, amount)]

\* total_transfer_of without the pending reward.
total_transfer_without_reward(amount, pending_tokens) == amount

\* The staked tokens plus the pending reward.
total_transfer_of(amount, pending_tokens) ==
    checked_add(amount, pending_tokens, U64_MAX)

unstake_collection_tokens(s, amount, staker_token_account, pool_token_account, collection_mint) ==
    LET position == staker_position[s]
        pending == pending_of(position, staking_pool)
        pending_tokens == pending_tokens_of(pending)
        total_transfer == total_transfer_of(amount, pending_tokens)
        t == transfer_from_pool(balance, pool_token_account, collection_mint,
                                staker_token_account, total_transfer)
        pool == unstaked_pool(staking_pool, amount)
        amount_staked == checked_sub(position.amount_staked, amount)
        unstaked == [position EXCEPT !.amount_staked = amount_staked]
        reward_debt == reward_debt_of(unstaked, pool)
    IN  IF ~position.exists THEN StakeFailed(s, "AccountNotInitialized")
        ELSE IF ~(amount > 0) THEN StakeFailed(s, "InsufficientFunds")
        ELSE IF ~(position.amount_staked >= amount) THEN StakeFailed(s, "InsufficientFunds")
        ELSE IF pending = Overflow \/ total_transfer = Overflow
            THEN StakeFailed(s, "MathOverflow")
        ELSE IF t.err # "Ok" THEN StakeFailed(s, t.err)
        ELSE IF Overflow \in {pool.total_staked, amount_staked, reward_debt}
            THEN StakeFailed(s, "MathOverflow")
        ELSE [err |-> "Ok", balance |-> t.balance, staking_pool |-> pool,
              position |-> [unstaked EXCEPT !.reward_debt = reward_debt],
              pending_tokens |-> pending_tokens, transferred |-> total_transfer]

StakeAmounts == {0, 100, 200}

\* The token accounts a staker passes as pool_token_account: the pool's own
\* holding, or a token account that is its own owner.
PoolTokenAccounts == {Holding(StakingPoolPDA, CollectionMint), SelfOwned}

\* The run has not used up its staking and fee calls.
CallsLeft ==
    counters.staking_calls + counters.harvests + counters.deposits < MaxStakingCalls

\* What a committed staking call changes.
StakingCommit(op, s, input, r) ==
    /\ r.err = "Ok"
    /\ CallsLeft
    /\ last' = [NoCall EXCEPT !.op = op, !.caller = s, !.input = input,
                   !.out = [pending_tokens |-> r.pending_tokens,
                            transferred |-> r.transferred]]
    /\ balance' = r.balance
    /\ staking_pool' = r.staking_pool
    /\ staker_position' = [staker_position EXCEPT ![s] = r.position]
    /\ counters' = [counters EXCEPT !.staking_calls = @ + 1,
                                    !.rewarded = @ + (IF op = "stake_collection_tokens"
                                                      THEN 0 ELSE r.pending_tokens)]
    /\ UNCHANGED <<configuration, now, fee_basis_points, is_blacklisted, total_trust_score, access_escrow,
                   peer_trust, cid_reveal, supply, collection_rewards, performer_escrow,
                   pinner_state, ticket, created>>

StakeInput(s, amount, pool_token_account) ==
    [amount |-> amount, staker_token_account |-> Holding(s, CollectionMint),
     pool_token_account |-> pool_token_account, mint |-> CollectionMint]

StakeCollectionTokens ==
    \E s \in Stakers, amount \in StakeAmounts, pool_token_account \in PoolTokenAccounts :
        LET inp == StakeInput(s, amount, pool_token_account)
        IN  StakingCommit("stake_collection_tokens", s, inp,
                          stake_collection_tokens(s, amount, inp.staker_token_account,
                                                  pool_token_account, inp.mint))

ClaimStakingRewards ==
    \E s \in Stakers, pool_token_account \in PoolTokenAccounts :
        LET inp == StakeInput(s, 0, pool_token_account)
        IN  StakingCommit("claim_staking_rewards", s, inp,
                          claim_staking_rewards(s, inp.staker_token_account,
                                                pool_token_account, inp.mint))

UnstakeCollectionTokens ==
    \E s \in Stakers, amount \in StakeAmounts, pool_token_account \in PoolTokenAccounts :
        LET inp == StakeInput(s, amount, pool_token_account)
        IN  StakingCommit("unstake_collection_tokens", s, inp,
                          unstake_collection_tokens(s, amount, inp.staker_token_account,
                                                    pool_token_account, inp.mint))

(***************************************************************************)
(* Hosting peers ("pinners") and fee harvesting.                           *)
(* register_collection_host is `init` of the PinnerState PDA of the pinner *)
(* who signs; harvest_fees is signed by an authority and splits the whole  *)
(* balance of the fee vault; claim_rewards is signed by the pinner.  The   *)
(* fee vault receives fees by token transfers from outside the program.    *)
(***************************************************************************)
\* The fee vault: the token account of the collection mint that the
\* collection PDA owns.
FeeVault == Holding(CollectionPDA, CollectionMint)

register_collection_host(w) ==
    LET total_shares == checked_add(collection_rewards.total_shares, 1, U64_MAX)
        reward_debt == checked_mul(1, collection_rewards.acc_reward_per_share, U128_MAX)
    IN  IF pinner_state[w].exists
            THEN [err |-> "AccountAlreadyInUse", pinner |-> pinner_state[w],
                  rewards |-> collection_rewards]
        ELSE IF total_shares = Overflow \/ reward_debt = Overflow
            THEN [err |-> "MathOverflow", pinner |-> pinner_state[w],
                  rewards |-> collection_rewards]
        ELSE [err |-> "Ok",
              pinner |-> [exists |-> TRUE, pinner |-> w, is_active |-> TRUE, shares |-> 1,
                          reward_debt |-> reward_debt],
              rewards |-> [collection_rewards EXCEPT !.total_shares = total_shares]]

RegisterCollectionHost ==
    \E w \in Peers :
        LET r == register_collection_host(w)
        IN  /\ r.err = "Ok"
            /\ last' = [NoCall EXCEPT !.op = "register_collection_host", !.caller = w]
            /\ pinner_state' = [pinner_state EXCEPT ![w] = r.pinner]
            /\ collection_rewards' = r.rewards
            /\ UNCHANGED <<configuration, now, fee_basis_points, is_blacklisted, total_trust_score,
                           staking_pool, access_escrow, peer_trust, cid_reveal, balance,
                           supply, staker_position, performer_escrow, ticket, created,
                           counters>>

\* A token transfer into the fee vault by a holder of collection tokens.
FeeDeposits == {1, 7, 400}

DepositFees ==
    /\ counters.deposits < MaxHarvests
    /\ CallsLeft
    /\ \E amount \in FeeDeposits :
          LET t == transfer_checked(balance, Holding("p1", CollectionMint), CollectionMint,
                                    FeeVault, "p1", amount)
          IN  /\ t.err = "Ok"
              /\ last' = [NoCall EXCEPT !.op = "deposit_fees", !.caller = "p1",
                             !.input = [amount |-> amount]]
              /\ balance' = t.balance
              /\ counters' = [counters EXCEPT !.deposits = @ + 1]
              /\ UNCHANGED <<reward_accounts, ticket, configuration, now, fee_basis_points, is_blacklisted,
                             total_trust_score, staking_pool, access_escrow, peer_trust,
                             cid_reveal, supply, created>>

HarvestFailed(e) ==
    [err |-> e, balance |-> balance, rewards |-> collection_rewards,
     performer_escrow |-> performer_escrow,
     shares |-> [pinner |-> 0, owner |-> 0, performer |-> 0, staker |-> 0]]

\* fee_share_of with the division rounding up.
fee_share_rounded_up(harvested_amount, split) ==
    checked_div(checked_add(checked_mul(harvested_amount, split, U64_MAX), 99, U64_MAX),
                100)

\* One bucket of the split: floor(harvested_amount * split / 100).
fee_share_of(harvested_amount, split) ==
    checked_div(checked_mul(harvested_amount, split, U64_MAX), 100)

\* acc_reward_per_share_after that sets the accumulator to the last reward.
acc_reward_per_share_replaced(rewards, final_pinner_share) ==
    IF rewards.total_shares > 0 /\ final_pinner_share > 0
    THEN checked_div(checked_mul(final_pinner_share, REWARD_PRECISION, U128_MAX),
                     rewards.total_shares)
    ELSE rewards.acc_reward_per_share

\* collection.acc_reward_per_share after final_pinner_share is credited.
acc_reward_per_share_after(rewards, final_pinner_share) ==
    IF rewards.total_shares > 0 /\ final_pinner_share > 0
    THEN checked_add(rewards.acc_reward_per_share,
                     checked_div(checked_mul(final_pinner_share, REWARD_PRECISION, U128_MAX),
                                 rewards.total_shares),
                     U128_MAX)
    ELSE rewards.acc_reward_per_share

\* A transfer of the token program that is skipped when amount is 0.
transfer_if_positive(t, from, to, authority, amount) ==
    IF t.err # "Ok" \/ ~(amount > 0) THEN t
    ELSE transfer_checked(t.balance, from, from.mint, to, authority, amount)

harvest_fees(authority, fee_vault, owner_token_account, performer_escrow_token_account, staker_treasury) ==
    LET harvested_amount == balance[fee_vault]
        pinner_share == fee_share_of(harvested_amount, SPLIT_PINNER)
        owner_share == fee_share_of(harvested_amount, SPLIT_OWNER)
        performer_share == fee_share_of(harvested_amount, SPLIT_PERFORMER)
        staker_share == fee_share_of(harvested_amount, SPLIT_STAKERS)
        total_split == checked_add(checked_add(checked_add(pinner_share, owner_share, U64_MAX),
                                               performer_share, U64_MAX),
                                   staker_share, U64_MAX)
        \* saturating_sub, and checked_add(..).unwrap_or(pinner_share)
        remainder == IF harvested_amount > total_split
                     THEN harvested_amount - total_split ELSE 0
        final_pinner_share == IF checked_add(pinner_share, remainder, U64_MAX) = Overflow
                              THEN pinner_share ELSE pinner_share + remainder
        t1 == transfer_if_positive([err |-> "Ok", balance |-> balance], fee_vault,
                                   owner_token_account, CollectionPDA, owner_share)
        t2 == transfer_if_positive(t1, fee_vault, performer_escrow_token_account,
                                   CollectionPDA, performer_share)
        t3 == transfer_if_positive(t2, fee_vault, staker_treasury, CollectionPDA,
                                   staker_share)
        acc == acc_reward_per_share_after(collection_rewards, final_pinner_share)
        pool_balance == checked_add(collection_rewards.reward_pool_balance,
                                    final_pinner_share, U64_MAX)
        owner_balance == checked_add(collection_rewards.owner_reward_balance, owner_share,
                                     U64_MAX)
        performer_balance == checked_add(performer_escrow.balance, performer_share, U64_MAX)
        staker_balance == checked_add(collection_rewards.staker_reward_balance,
                                      staker_share, U64_MAX)
    IN  IF ~(authority = CollectionOwner \/ authority = Admin)
            THEN HarvestFailed("Unauthorized")
        ELSE IF ~(harvested_amount > 0) THEN HarvestFailed("InsufficientFunds")
        ELSE IF Overflow \in {pinner_share, owner_share, performer_share, staker_share,
                              total_split}
            THEN HarvestFailed("MathOverflow")
        ELSE IF t3.err # "Ok" THEN HarvestFailed(t3.err)
        ELSE IF Overflow \in {acc, pool_balance, owner_balance, performer_balance,
                              staker_balance}
            THEN HarvestFailed("MathOverflow")
        ELSE [err |-> "Ok", balance |-> t3.balance,
              rewards |-> [collection_rewards EXCEPT
                              !.acc_reward_per_share = acc,
                              !.reward_pool_balance = pool_balance,
                              !.owner_reward_balance = owner_balance,
                              !.staker_reward_balance = staker_balance],
              performer_escrow |-> [balance |-> performer_balance],
              shares |-> [pinner |-> final_pinner_share, owner |-> owner_share,
                          performer |-> performer_share, staker |-> staker_share]]

HarvestAuthorities == {CollectionOwner, "p1"}

HarvestFees ==
    /\ counters.harvests < MaxHarvests
    /\ CallsLeft
    /\ \E authority \in HarvestAuthorities :
          LET r == harvest_fees(authority, FeeVault, Holding(CollectionOwner, CollectionMint),
                                Holding(PerformerEscrowPDA, CollectionMint),
                                Holding(Treasury, CollectionMint))
          IN  /\ r.err = "Ok"
              /\ last' = [NoCall EXCEPT !.op = "harvest_fees", !.caller = authority,
                             !.input = [harvested_amount |-> balance[FeeVault]],
                             !.out = r.shares]
              /\ balance' = r.balance
              /\ collection_rewards' = r.rewards
              /\ performer_escrow' = r.performer_escrow
              /\ counters' = [counters EXCEPT !.harvests = @ + 1]
              /\ UNCHANGED <<configuration, now, fee_basis_points, is_blacklisted, total_trust_score,
                             staking_pool, access_escrow, peer_trust, cid_reveal, supply,
                             staker_position, pinner_state, ticket, created>>

ClaimFailed(w, e) ==
    [err |-> e, balance |-> balance, rewards |-> collection_rewards,
     pinner |-> pinner_state[w], pending_tokens |-> 0]

\* claimable without the check.
claimable_always(pending_tokens) == TRUE

\* The check that the reward, in whole tokens, is not zero.
claimable(pending_tokens) == pending_tokens > 0

\* The pinner's claim_rewards, with the pinner's own token account of the
\* collection mint as destination.
claim_rewards(w, fee_vault, pinner_token_account) ==
    LET pinner == pinner_state[w]
        accumulated == checked_mul(pinner.shares, collection_rewards.acc_reward_per_share,
                                   U128_MAX)
        \* saturating_sub
        pending == IF accumulated > pinner.reward_debt
                   THEN accumulated - pinner.reward_debt ELSE 0
        pending_tokens == pending_tokens_of(pending)
        pool_balance == checked_sub(collection_rewards.reward_pool_balance, pending_tokens)
        t == transfer_checked(balance, fee_vault, fee_vault.mint, pinner_token_account,
                              CollectionPDA, pending_tokens)
    IN  IF ~pinner.exists THEN ClaimFailed(w, "AccountNotInitialized")
        ELSE IF fee_vault.owner # CollectionPDA \/ pinner_token_account.owner # w
            THEN ClaimFailed(w, "Unauthorized")
        ELSE IF fee_vault.mint # CollectionMint \/ pinner_token_account.mint # CollectionMint
            THEN ClaimFailed(w, "InvalidAccount")
        ELSE IF ~pinner.is_active THEN ClaimFailed(w, "Unauthorized")
        ELSE IF accumulated = Overflow THEN ClaimFailed(w, "MathOverflow")
        ELSE IF ~(pending > 0) THEN ClaimFailed(w, "InsufficientFunds")
        ELSE IF ~claimable(pending_tokens) THEN ClaimFailed(w, "InsufficientFunds")
        ELSE IF ~(balance[fee_vault] >= pending_tokens) THEN ClaimFailed(w, "InsufficientFunds")
        ELSE IF pool_balance = Overflow THEN ClaimFailed(w, "MathOverflow")
        ELSE IF t.err # "Ok" THEN ClaimFailed(w, t.err)
        ELSE [err |-> "Ok", balance |-> t.balance,
              rewards |-> [collection_rewards EXCEPT !.reward_pool_balance = pool_balance],
              pinner |-> [pinner EXCEPT !.reward_debt = accumulated],
              pending_tokens |-> pending_tokens]

ClaimRewards ==
    \E w \in Peers :
        LET r == claim_rewards(w, FeeVault, Holding(w, CollectionMint))
        IN  /\ r.err = "Ok"
            /\ last' = [NoCall EXCEPT !.op = "claim_rewards", !.caller = w,
                           !.out = [pending_tokens |-> r.pending_tokens]]
            /\ balance' = r.balance
            /\ collection_rewards' = r.rewards
            /\ pinner_state' = [pinner_state EXCEPT ![w] = r.pinner]
            /\ UNCHANGED <<configuration, now, fee_basis_points, is_blacklisted, total_trust_score,
                           staking_pool, access_escrow, peer_trust, cid_reveal, supply,
                           staker_position, performer_escrow, ticket, created, counters>>

(***************************************************************************)
(* Moderation tickets.  create_ticket(target_id, ticket_type, ...) is      *)
(* `init` of the ModTicket PDA of target_id; resolve_ticket(verdict) is    *)
(* signed by a moderator whose stake is active and at least the minimum,   *)
(* with the collection account passed or not.                              *)
(***************************************************************************)
TicketTypes == {"ContentReport", "CopyrightClaim"}

\* The claim_indices arguments: none, one index, two indices, one index
\* twice, an index that is not below total_videos.
ClaimIndexLists == {<<>>, <<0>>, <<0, 1>>, <<0, 0>>, <<TotalVideos>>}

\* The <<ticket_type, claim_indices>> arguments of create_ticket.
TicketInputs ==
    {<<"ContentReport", <<>>>>} \cup {<<"CopyrightClaim", l>> : l \in ClaimIndexLists}

\* The elements of the sequence seq.
Range(seq) == {seq[i] : i \in DOMAIN seq}

create_ticket(t, ticket_type, claim_indices, with_collection) ==
    LET failed(e) == [err |-> e, ticket |-> ticket[t]]
    IN  IF ticket[t].exists THEN failed("AccountAlreadyInUse")
        ELSE IF ticket_type = "CopyrightClaim" /\ ~with_collection
            THEN failed("Unauthorized")
        ELSE IF ticket_type = "CopyrightClaim" /\ ~(now < collection_claims.claim_deadline)
            THEN failed("Unauthorized")
        ELSE IF ticket_type = "CopyrightClaim"
                /\ \E idx \in Range(claim_indices) : ~(idx < collection_claims.total_videos)
            THEN failed("InvalidAccount")
        ELSE [err |-> "Ok",
              ticket |-> [exists |-> TRUE, ticket_type |-> ticket_type, resolved |-> FALSE,
                          verdict |-> FALSE, created_at |-> now,
                          claim_indices |-> claim_indices]]

CreateTicket ==
    \E t \in Tickets, inp \in TicketInputs, with_collection \in BOOLEAN :
        LET r == create_ticket(t, inp[1], inp[2], with_collection)
        IN  /\ r.err = "Ok"
            /\ last' = [NoCall EXCEPT !.op = "create_ticket",
                           !.input = [ticket |-> t, ticket_type |-> inp[1],
                                      claim_indices |-> inp[2]]]
            /\ ticket' = [ticket EXCEPT ![t] = r.ticket]
            /\ UNCHANGED <<reward_accounts, configuration, now, fee_basis_points, is_blacklisted,
                           total_trust_score, staking_pool, access_escrow, peer_trust,
                           cid_reveal, balance, supply, created, counters>>

resolve_ticket(t, verdict, with_collection) ==
    IF ~ticket[t].exists
        THEN [err |-> "AccountNotInitialized", ticket |-> ticket[t],
              is_blacklisted |-> is_blacklisted]
    ELSE IF ticket[t].resolved
        THEN [err |-> "TicketAlreadyResolved", ticket |-> ticket[t],
              is_blacklisted |-> is_blacklisted]
    ELSE [err |-> "Ok",
          ticket |-> [ticket[t] EXCEPT !.resolved = TRUE, !.verdict = verdict],
          is_blacklisted |-> IF ticket[t].ticket_type = "ContentReport" /\ verdict
                                   /\ with_collection
                             THEN TRUE ELSE is_blacklisted]

ResolveTicket ==
    \E t \in Tickets, verdict \in BOOLEAN, with_collection \in BOOLEAN :
        LET r == resolve_ticket(t, verdict, with_collection)
        IN  /\ r.err = "Ok"
            /\ last' = [NoCall EXCEPT !.op = "resolve_ticket",
                           !.input = [ticket |-> t, verdict |-> verdict,
                                      with_collection |-> with_collection]]
            /\ ticket' = [ticket EXCEPT ![t] = r.ticket]
            /\ is_blacklisted' = r.is_blacklisted
            /\ UNCHANGED <<reward_accounts, configuration, now, fee_basis_points, total_trust_score,
                           staking_pool, access_escrow, peer_trust, cid_reveal, balance,
                           supply, created, counters>>

(***************************************************************************)
(* The one-time mint of the collection's tokens and the claim vault.       *)
(* mint_collection_tokens(amount) is signed by creator, who must be        *)
(* collection.owner; the constraints pin the creator's token account, the  *)
(* claim vault (collection.claim_vault) and the liquidity reserve (the     *)
(* associated token account of the CollectionState PDA).                   *)
(***************************************************************************)
\* The token program's mint_to; the mint authority is the CollectionState PDA.
mint_to(bal, sup, mint, to, amount) ==
    IF to.mint # mint THEN [err |-> "MintMismatch", balance |-> bal, supply |-> sup]
    ELSE IF sup[mint] + amount > U64_MAX
        THEN [err |-> "TokenOverflow", balance |-> bal, supply |-> sup]
    ELSE [err |-> "Ok", balance |-> [bal EXCEPT ![to] = @ + amount],
          supply |-> [sup EXCEPT ![mint] = @ + amount]]

\* not_yet_minted without the flag.
not_yet_minted_always(collection) == TRUE

\* The requirement !tokens_minted.
not_yet_minted(collection) == ~collection.tokens_minted

mint_collection_tokens(creator, amount) ==
    LET failed(e) == [err |-> e, balance |-> balance, supply |-> supply,
                      collection_claims |-> collection_claims]
        reserve_amount == checked_div(checked_mul(amount, 80, U64_MAX), 100)
        creator_amount == checked_div(checked_mul(amount, 10, U64_MAX), 100)
        claim_vault_amount == checked_div(checked_mul(amount, 10, U64_MAX), 100)
        total_distributed ==
            checked_add(checked_add(reserve_amount, creator_amount, U64_MAX),
                        claim_vault_amount, U64_MAX)
        remainder == IF amount > total_distributed THEN amount - total_distributed ELSE 0
        final_reserve_amount ==
            IF checked_add(reserve_amount, remainder, U64_MAX) = Overflow
            THEN reserve_amount ELSE reserve_amount + remainder
        m1 == mint_to(balance, supply, CollectionMint,
                      Holding(creator, CollectionMint), creator_amount)
        m2 == mint_to(m1.balance, m1.supply, CollectionMint,
                      collection_claims.claim_vault, claim_vault_amount)
        m3 == mint_to(m2.balance, m2.supply, CollectionMint,
                      Holding(CollectionPDA, CollectionMint), final_reserve_amount)
    IN  IF creator # CollectionOwner THEN failed("Unauthorized")
        ELSE IF ~(amount > 0) THEN failed("InvalidFeeConfig")
        ELSE IF ~not_yet_minted(collection_claims) THEN failed("Unauthorized")
        ELSE IF Overflow \in {reserve_amount, creator_amount, claim_vault_amount,
                              total_distributed}
            THEN failed("MathOverflow")
        ELSE IF m1.err # "Ok" THEN failed(m1.err)
        ELSE IF m2.err # "Ok" THEN failed(m2.err)
        ELSE IF m3.err # "Ok" THEN failed(m3.err)
        ELSE [err |-> "Ok", balance |-> m3.balance, supply |-> m3.supply,
              collection_claims |->
                  [collection_claims EXCEPT !.claim_vault_initial_amount = claim_vault_amount,
                                            !.tokens_minted = TRUE]]

MintAmounts == {0, 5, 50, 10000, U64_MAX}

MintCollectionTokens ==
    \E creator \in {CollectionOwner, "p1"}, amount \in MintAmounts :
        LET r == mint_collection_tokens(creator, amount)
        IN  /\ r.err = "Ok"
            /\ last' = [NoCall EXCEPT !.op = "mint_collection_tokens", !.caller = creator,
                           !.input = [amount |-> amount]]
            /\ balance' = r.balance
            /\ supply' = r.supply
            /\ collection_claims' = r.collection_claims
            /\ UNCHANGED <<reward_accounts, ticket, global_state, now, fee_basis_points,
                           is_blacklisted, total_trust_score, staking_pool, access_escrow,
                           peer_trust, cid_reveal, created, counters>>

(***************************************************************************)
(* burn_unclaimed_tokens(), signed by anyone: once the claim deadline has  *)
(* passed it burns the whole balance of the claim vault, with the claim    *)
(* vault PDA as the authority of the burn.                                 *)
(***************************************************************************)
burn_unclaimed_tokens ==
    LET failed(e) == [err |-> e, balance |-> balance, supply |-> supply]
        claim_vault == collection_claims.claim_vault
        amount_to_burn == balance[claim_vault]
        b == burn(balance, supply, CollectionMint, claim_vault, ClaimVaultPDA, TRUE,
                  amount_to_burn)
    IN  IF ~(now >= collection_claims.claim_deadline) THEN failed("Unauthorized")
        ELSE IF ~(amount_to_burn > 0) THEN failed("InsufficientFunds")
        ELSE IF b.err # "Ok" THEN failed(b.err)
        ELSE [err |-> "Ok", balance |-> b.balance, supply |-> b.supply]

BurnUnclaimedTokens ==
    LET r == burn_unclaimed_tokens
    IN  /\ r.err = "Ok"
        /\ last' = [NoCall EXCEPT !.op = "burn_unclaimed_tokens",
                       !.out = [burned |-> balance[collection_claims.claim_vault]]]
        /\ balance' = r.balance
        /\ supply' = r.supply
        /\ UNCHANGED <<reward_accounts, ticket, configuration, now, fee_basis_points,
                       is_blacklisted, total_trust_score, staking_pool, access_escrow,
                       peer_trust, cid_reveal, created, counters>>

(***************************************************************************)
(* resolve_copyright_claim(verdict) on ticket t, signed by a moderator     *)
(* whose stake is active and at least the minimum.  The claim vault must   *)
(* be collection.claim_vault; the claimant's token account is an unchecked *)
(* account and collection_mint is any mint account.                        *)
(***************************************************************************)
\* already_claimed without the look at the bitmap.
already_claimed_never(claimed_bitmap, claim_indices) == {}

\* The claim_indices of which the bit is already set.
already_claimed(claimed_bitmap, claim_indices) == Range(claim_indices) \cap claimed_bitmap

\* Share = (Initial_Vault / Total_Videos) * Claimed_Count.
payout_amount_of(collection, claim_indices) ==
    checked_mul(checked_div(collection.claim_vault_initial_amount, collection.total_videos),
                Len(claim_indices), U64_MAX)

resolve_copyright_claim(t, verdict, claimant_token_account, collection_mint) ==
    LET before == [err |-> "Ok", ticket |-> ticket[t], collection_claims |-> collection_claims,
                   balance |-> balance, payout |-> 0]
        failed(e, partial) == [rolled_back(before, partial) EXCEPT !.err = e]
        resolved == [before EXCEPT !.ticket.resolved = TRUE, !.ticket.verdict = verdict]
        claim_indices == ticket[t].claim_indices
        payout_amount == payout_amount_of(collection_claims, claim_indices)
        marked == [resolved EXCEPT !.collection_claims.claimed_bitmap =
                                       @ \cup Range(claim_indices),
                                   !.payout = payout_amount]
        tr == transfer_checked(balance, collection_claims.claim_vault, collection_mint,
                               claimant_token_account, CollectionPDA, payout_amount)
    IN  IF ~ticket[t].exists THEN failed("AccountNotInitialized", before)
        ELSE IF ticket[t].ticket_type # "CopyrightClaim" THEN failed("Unauthorized", before)
        ELSE IF ticket[t].resolved THEN failed("TicketAlreadyResolved", before)
        ELSE IF ~verdict THEN resolved
        ELSE IF ~(collection_claims.tokens_minted
                  /\ collection_claims.claim_vault_initial_amount > 0)
            THEN failed("InvalidFeeConfig", resolved)
        ELSE IF claim_indices = <<>> THEN failed("InvalidFeeConfig", resolved)
        ELSE IF \E idx \in Range(claim_indices) :
                   ~(idx \div 8 < collection_claims.bitmap_size)
            THEN failed("InvalidAccount", resolved)
        ELSE IF already_claimed(collection_claims.claimed_bitmap, claim_indices) # {}
            THEN failed("Unauthorized", resolved)
        ELSE IF payout_amount = Overflow THEN failed("MathOverflow", resolved)
        ELSE IF ~(payout_amount > 0) THEN failed("InsufficientFunds", resolved)
        ELSE IF tr.err # "Ok" THEN failed(tr.err, marked)
        ELSE [marked EXCEPT !.balance = tr.balance]

\* The claimant_token_account arguments: p1's token account and the claim
\* vault itself.
ClaimantAccounts == {Holding("p1", CollectionMint)} \cup ClaimVaults

ResolveCopyrightClaim ==
    \E t \in Tickets, verdict \in BOOLEAN, claimant_token_account \in ClaimantAccounts,
       collection_mint \in Mints :
        LET r == resolve_copyright_claim(t, verdict, claimant_token_account, collection_mint)
        IN  /\ r.err = "Ok"
            /\ last' = [NoCall EXCEPT !.op = "resolve_copyright_claim",
                           !.input = [ticket |-> t, verdict |-> verdict,
                                      claimant_token_account |-> claimant_token_account,
                                      claim_indices |-> ticket[t].claim_indices],
                           !.out = [payout |-> r.payout]]
            /\ ticket' = [ticket EXCEPT ![t] = r.ticket]
            /\ collection_claims' = r.collection_claims
            /\ balance' = r.balance
            /\ UNCHANGED <<reward_accounts, global_state, now, fee_basis_points, is_blacklisted,
                           total_trust_score, staking_pool, access_escrow, peer_trust,
                           cid_reveal, supply, created, counters>>

\* The clock reaches the end of the vesting period of a collection created
\* at time 0.
TickVesting ==
    /\ \E t \in {CLAIM_VAULT_VESTING_SECONDS - 1, CLAIM_VAULT_VESTING_SECONDS} :
          t > now /\ now' = t
    /\ last' = [NoCall EXCEPT !.op = "tick"]
    /\ UNCHANGED <<ledger, created, counters>>

(***************************************************************************)
(* update_global_state(.., fee_basis_points) with the account new_treasury *)
(* and disable_global_state_updates(), signed by caller.  Both account     *)
(* structs require the signer to be GlobalState.admin and updates_disabled *)
(* to be false.                                                            *)
(***************************************************************************)
\* The fee_basis_points argument: None, or Some(value).
FeeOptions == {[some |-> FALSE]} \cup {[some |-> TRUE, value |-> f] : f \in {0, 200, 10000, 10001}}

AdminCallers == {Admin, "p1"}

TreasuryAccounts == {Treasury, CollectionOwner}

\* updates_enabled without the flag.
updates_enabled_always(state) == TRUE

\* The constraint !global_state.updates_disabled.
updates_enabled(state) == ~state.updates_disabled

update_global_state(caller, fee_option, new_treasury) ==
    LET failed(e) == [err |-> e, global_state |-> global_state,
                      fee_basis_points |-> fee_basis_points]
    IN  IF global_state.admin # caller THEN failed("Unauthorized")
        ELSE IF ~updates_enabled(global_state) THEN failed("Unauthorized")
        ELSE IF fee_option.some /\ ~(fee_option.value <= 10000)
            THEN failed("InvalidFeeConfig")
        ELSE [err |-> "Ok",
              fee_basis_points |-> IF fee_option.some THEN fee_option.value
                                   ELSE fee_basis_points,
              global_state |-> IF new_treasury # global_state.treasury
                               THEN [global_state EXCEPT !.treasury = new_treasury]
                               ELSE global_state]

UpdateGlobalState ==
    \E caller \in AdminCallers, fee_option \in FeeOptions, new_treasury \in TreasuryAccounts :
        LET r == update_global_state(caller, fee_option, new_treasury)
        IN  /\ r.err = "Ok"
            /\ last' = [NoCall EXCEPT !.op = "update_global_state", !.caller = caller,
                           !.input = [fee_basis_points |-> fee_option,
                                      new_treasury |-> new_treasury]]
            /\ global_state' = r.global_state
            /\ fee_basis_points' = r.fee_basis_points
            /\ UNCHANGED <<reward_accounts, ticket, collection_claims, now, is_blacklisted,
                           total_trust_score, staking_pool, access_escrow, peer_trust,
                           cid_reveal, balance, supply, created, counters>>

disable_global_state_updates(caller) ==
    IF global_state.admin # caller
        THEN [err |-> "Unauthorized", global_state |-> global_state]
    ELSE IF ~updates_enabled(global_state)
        THEN [err |-> "Unauthorized", global_state |-> global_state]
    ELSE [err |-> "Ok", global_state |-> [global_state EXCEPT !.updates_disabled = TRUE]]

DisableGlobalStateUpdates ==
    \E caller \in AdminCallers :
        LET r == disable_global_state_updates(caller)
        IN  /\ r.err = "Ok"
            /\ last' = [NoCall EXCEPT !.op = "disable_global_state_updates",
                                      !.caller = caller]
            /\ global_state' = r.global_state
            /\ UNCHANGED <<reward_accounts, ticket, collection_claims, now, fee_basis_points,
                           is_blacklisted, total_trust_score, staking_pool, access_escrow,
                           peer_trust, cid_reveal, balance, supply, created, counters>>

(***************************************************************************)
(* The escrow life cycle: purchase, release, burn.  reveal_cid touches     *)
(* only is_cid_revealed and the CidReveal accounts; SpecWithReveal adds    *)
(* it.                                                                     *)
(***************************************************************************)
Next ==
    \/ Tick
    \/ PurchaseAccess
    \/ CreateAccessEscrow
    \/ InitializePeerTrustState
    \/ ReleaseEscrow
    \/ BurnExpiredEscrow

Spec == Init /\ [][Next]_vars

NextWithReveal ==
    \/ Next
    \/ RevealCid

SpecWithReveal == Init /\ [][NextWithReveal]_vars

(***************************************************************************)
(* Staking and the purchases that credit the pool.  The run starts with a  *)
(* fee of 200 basis points and with tokens in the hands of both stakers.   *)
(***************************************************************************)
StakingBalanceOf(h) ==
    IF h = Holding("p2", CollectionMint) THEN SecondStakerBalance
    ELSE IF h = SelfOwned THEN SelfOwnedBalance
    ELSE InitialBalanceOf(h, 0)

InitStaking ==
    /\ now = 0
    /\ is_blacklisted = FALSE
    /\ total_trust_score = 0
    /\ staking_pool = [total_staked |-> 0, reward_per_token |-> 0]
    /\ access_escrow = [p \in Purchasers |-> NoEscrow]
    /\ peer_trust = [w \in Peers |-> NoTrust]
    /\ cid_reveal = {}
    /\ fee_basis_points = 200
    /\ balance = [h \in Holdings |-> StakingBalanceOf(h)]
    /\ supply = [m \in Mints |-> TotalTokens(balance, m)]
    /\ staker_position = [s \in Stakers |-> NoPosition]
    /\ collection_rewards = NoRewards
    /\ performer_escrow = [balance |-> 0]
    /\ pinner_state = [w \in Peers |-> NoPinner]
    /\ ticket = [t \in Tickets |-> NoTicket]
    /\ global_state = InitialGlobalState
    /\ collection_claims = VestedCollection
    /\ created = [p \in Purchasers |-> NotCreated]
    /\ counters = NoCounters
    /\ last = NoCall

NextStaking ==
    \/ PurchaseAccess
    \/ StakeCollectionTokens
    \/ ClaimStakingRewards
    \/ UnstakeCollectionTokens

SpecStaking == InitStaking /\ [][NextStaking]_vars

(***************************************************************************)
(* Purchases on a collection that a moderator may blacklist, with stakers  *)
(* in the pool.                                                            *)
(***************************************************************************)
\* In this specification the reports are made on one ticket.
NextModeration ==
    \/ PurchaseAccess
    \/ StakeCollectionTokens
    \/ CreateTicket /\ last'.input.ticket = "t1"
    \/ ResolveTicket

SpecModeration == InitStaking /\ [][NextModeration]_vars

(***************************************************************************)
(* The reward accumulators: the staking pool, credited by purchases, and   *)
(* the hosting peers' share of harvested fees.                             *)
(***************************************************************************)
\* In this specification one hosting peer registers, and the fee vault
\* receives 7 or 400 tokens at a time.
RewardsInput ==
    /\ last.op = "register_collection_host" => last.caller = "w1"
    /\ last.op = "deposit_fees" => last.input.amount \in {7, 400}

NextRewards ==
    \/ NextStaking
    \/ RegisterCollectionHost /\ RewardsInput'
    \/ DepositFees /\ RewardsInput'
    \/ HarvestFees
    \/ ClaimRewards

\* One staker with tokens, a fee of 200 basis points.
InitRewards ==
    /\ Init
    /\ fee_basis_points = 200
    /\ balance[Holding(AccessEscrowPDA("p1"), CollectionMint)] = 0

SpecRewards == InitRewards /\ [][NextRewards]_vars

(***************************************************************************)
(* The hosting peers' rewards alone: two peers register, fees arrive in    *)
(* the fee vault, are harvested and claimed.                               *)
(***************************************************************************)
NextHosting ==
    \/ RegisterCollectionHost
    \/ DepositFees
    \/ HarvestFees
    \/ ClaimRewards

SpecHosting == InitRewards /\ [][NextHosting]_vars

(***************************************************************************)
(* The whole life of an escrow record: purchases, releases, reveals and    *)
(* burns, interleaved with the staking calls of the same collection.       *)
(***************************************************************************)
\* The staking calls of this specification stake and unstake 100 tokens, on
\* the token account that can both receive a stake and pay it back.
LifetimeStakingInput ==
    /\ last.input.amount \in {0, 100}
    /\ last.input.pool_token_account = SelfOwned

NextLifetime ==
    \/ Tick
    \/ PurchaseAccess
    \/ CreateAccessEscrow
    \/ ReleaseEscrow
    \/ RevealCid
    \/ BurnExpiredEscrow
    \/ StakeCollectionTokens /\ LifetimeStakingInput'
    \/ ClaimStakingRewards /\ LifetimeStakingInput'
    \/ UnstakeCollectionTokens /\ LifetimeStakingInput'

\* A fee of 200 basis points, 40 tokens donated to p1's escrow holding, and
\* the PeerTrustState account of peer w1 initialized.
InitLifetime ==
    /\ now = 0
    /\ is_blacklisted = FALSE
    /\ total_trust_score = 0
    /\ staking_pool = [total_staked |-> 0, reward_per_token |-> 0]
    /\ access_escrow = [p \in Purchasers |-> NoEscrow]
    /\ peer_trust = [w \in Peers |->
                        IF w = "w1"
                        THEN [exists |-> TRUE, peer_wallet |-> w,
                              total_successful_serves |-> 0, trust_score |-> 0,
                              last_active |-> 0]
                        ELSE NoTrust]
    /\ cid_reveal = {}
    /\ fee_basis_points = 200
    /\ balance = [h \in Holdings |-> InitialBalanceOf(h, 40)]
    /\ supply = [m \in Mints |-> TotalTokens(balance, m)]
    /\ staker_position = [s \in Stakers |-> NoPosition]
    /\ collection_rewards = NoRewards
    /\ performer_escrow = [balance |-> 0]
    /\ pinner_state = [w \in Peers |-> NoPinner]
    /\ ticket = [t \in Tickets |-> NoTicket]
    /\ global_state = InitialGlobalState
    /\ collection_claims = VestedCollection
    /\ created = [p \in Purchasers |-> NotCreated]
    /\ counters = NoCounters
    /\ last = NoCall

SpecLifetime == InitLifetime /\ [][NextLifetime]_vars

(***************************************************************************)
(* Properties of purchase_access.                                          *)
(***************************************************************************)
\* A step that commits purchase_access.
PurchaseStep ==
    /\ last'.op = "purchase_access"
    /\ counters'.purchases = counters.purchases + 1

\* The tokens holding h gains in a step.
Gain(h) == balance'[h] - balance[h]

\* ceil(a / b) and floor(a / b) for a >= 0, b > 0.
Ceil(a, b) == CHOOSE n \in 0..a : n * b >= a /\ (n = 0 \/ (n - 1) * b < a)

Floor(a, b) == CHOOSE n \in 0..a : n * b <= a /\ (n + 1) * b > a

\* C1: every successful purchase_access with total_amount T debits the
\* purchaser's holding by exactly T, and what the treasury's, the staking
\* pool's and the escrow's holding gain sums to exactly T; no other holding
\* changes, and no token is created or destroyed.
C1_PurchaseConservesTokens ==
    [][PurchaseStep =>
         LET p == last'.caller
             m == last'.input.mint
             T == last'.input.total_amount
             parts == {Holding(Treasury, m), Holding(StakingPoolPDA, m),
                       Holding(AccessEscrowPDA(p), m)}
         IN  /\ Gain(Holding(p, m)) = -T
             /\ Gain(Holding(Treasury, m)) + Gain(Holding(StakingPoolPDA, m))
                    + Gain(Holding(AccessEscrowPDA(p), m)) = T
             /\ \A h \in parts : Gain(h) >= 0
             /\ \A h \in Holdings \ (parts \cup {Holding(p, m)}) : Gain(h) = 0
             /\ \A x \in Mints : TotalTokens(balance', x) = TotalTokens(balance, x)
             /\ supply' = supply
      ]_vars

\* A purchase of 3 tokens at a fee of 200 basis points has just moved one
\* token to each of the treasury, the staking pool and the escrow.
C1_Witness ==
    /\ last.op = "purchase_access"
    /\ last.input.total_amount = 3
    /\ fee_basis_points = 200
    /\ balance[Holding(last.caller, CollectionMint)] = InitialBalance - 3
    /\ balance[Holding(Treasury, CollectionMint)] = 1
    /\ balance[Holding(StakingPoolPDA, CollectionMint)] = 1
    /\ balance[Holding(AccessEscrowPDA(last.caller), CollectionMint)] = 1

\* C2: a successful purchase_access with total_amount T at fee_basis_points b
\* moves fee = ceil(T*b/10000) to the treasury, with amountAfterFee = T - fee
\* moves toEscrow = floor(amountAfterFee*50/100) to the escrow's holding and
\* floor(amountAfterFee*50/100) + (amountAfterFee - 2*floor(amountAfterFee*50/100))
\* to the staking pool's holding, and records amount_locked = toEscrow; for
\* T = 1000 and b = 200 these are 20, 490 and 490.
C2_PurchaseAmounts ==
    [][PurchaseStep =>
         LET p == last'.caller
             m == last'.input.mint
             T == last'.input.total_amount
             fee == Ceil(T * fee_basis_points, 10000)
             amountAfterFee == T - fee
             half == Floor(amountAfterFee * 50, 100)
             toEscrow == half
             toStakers == half + (amountAfterFee - 2 * half)
         IN  /\ Gain(Holding(Treasury, m)) = fee
             /\ Gain(Holding(AccessEscrowPDA(p), m)) = toEscrow
             /\ Gain(Holding(StakingPoolPDA, m)) = toStakers
             /\ access_escrow'[p].exists
             /\ access_escrow'[p].amount_locked = toEscrow
             /\ last'.out = [total_fee |-> fee, to_stakers |-> toStakers,
                             to_escrow |-> toEscrow]
             /\ (T = 1000 /\ fee_basis_points = 200) =>
                    (fee = 20 /\ toStakers = 490 /\ toEscrow = 490)
      ]_vars

\* The purchase of 1000 tokens at 200 basis points has just committed.
C2_Witness ==
    /\ last.op = "purchase_access"
    /\ last.input.total_amount = 1000
    /\ fee_basis_points = 200
    /\ last.out = [total_fee |-> 20, to_stakers |-> 490, to_escrow |-> 490]
    /\ access_escrow[last.caller].amount_locked = 490
    /\ balance[Holding(Treasury, CollectionMint)] = 20

(***************************************************************************)
(* Properties of release_escrow.                                           *)
(***************************************************************************)
\* A step that commits release_escrow on the escrow of purchaser e.
ReleaseStep(e) ==
    /\ last'.op = "release_escrow"
    /\ last'.escrow = e
    /\ ~created[e].released
    /\ created'[e].released

\* C3: in every successful release_escrow the amounts paid to the listed
\* peers sum to at most the escrow's amount_locked before the call, they all
\* come out of the escrow token account, and amount_locked is 0 after it.
C3_ReleasePaysAtMostLocked ==
    [][\A e \in Purchasers : ReleaseStep(e) =>
         LET locked_before == access_escrow[e].amount_locked
             paid == credited(balance, balance')
         IN  /\ paid <= locked_before
             /\ paid = SeqSum(last'.out.paid)
             /\ paid = -Gain(last'.input.escrow_token_account)
             /\ access_escrow'[e].exists
             /\ access_escrow'[e].amount_locked = 0
      ]_vars

\* A release to two peers with weights 2 and 1 has just paid out less than
\* the amount that was locked.
C3_Witness ==
    /\ last.op = "release_escrow"
    /\ last.input.peer_weights = <<2, 1>>
    /\ last.out.amount_locked = 490
    /\ last.out.paid = <<326, 163>>
    /\ access_escrow[last.escrow].amount_locked = 0

\* C4: the total paid to peers out of one escrow never exceeds the amount
\* locked at its creation, and once release_escrow has succeeded on an
\* escrow every release_escrow on it, by any caller with any peer lists and
\* accounts, fails and moves no token.
C4_NoDoublePayment ==
    \A e \in Purchasers :
        /\ created[e].paid <= created[e].amount_locked
        /\ created[e].released =>
              \A q \in Purchasers : \A inp \in ReleaseInputs(e) :
                  /\ release_escrow(q, e, inp).err # "Ok"
                  /\ release_escrow(q, e, inp).balance = balance

\* An escrow has been released and paid out, its token account still holds
\* enough tokens for another payment, the release window is still open and
\* the peers are registered, yet a further release is rejected.
C4_Witness ==
    \E e \in Purchasers :
        /\ created[e].released
        /\ created[e].paid > 0
        /\ now - access_escrow[e].created_at <= ESCROW_EXPIRY_SECONDS
        /\ peer_trust["w1"].exists
        /\ balance[Holding(AccessEscrowPDA(e), CollectionMint)] >= 40
        /\ release_escrow(e, e, ReleaseInput(e, <<"w1">>, <<1>>, CollectionMint)).err
               = "InsufficientFunds"

\* The token account of the collection's mint that the escrow PDA of e owns.
EscrowHolding(e) == Holding(AccessEscrowPDA(e), CollectionMint)

\* Seconds since the escrow of purchaser e was created.
Elapsed(e) == now - access_escrow[e].created_at

\* A release to the registered peer w1 alone, from the escrow's own token
\* account, which holds the locked amount.
PlainRelease(e) == ReleaseInput(e, <<"w1">>, <<1>>, CollectionMint)

OtherwiseValid(e) ==
    /\ access_escrow[e].exists
    /\ access_escrow[e].amount_locked > 0
    /\ balance[EscrowHolding(e)] >= access_escrow[e].amount_locked
    /\ peer_trust["w1"].exists

\* C5: an otherwise valid release_escrow succeeds at created_at + 86400 and
\* fails with EscrowExpired at created_at + 86401; burn_expired_escrow on an
\* escrow whose holding has tokens fails with EscrowNotExpired at
\* created_at + 86400 and succeeds at created_at + 86401.
C5_ExpiryBoundary ==
    /\ ESCROW_EXPIRY_SECONDS = 86400
    /\ \A e \in Purchasers :
          /\ (OtherwiseValid(e) /\ Elapsed(e) = 86400) =>
                 release_escrow(e, e, PlainRelease(e)).err = "Ok"
          /\ (OtherwiseValid(e) /\ Elapsed(e) = 86401) =>
                 release_escrow(e, e, PlainRelease(e)).err = "EscrowExpired"
          /\ (access_escrow[e].exists /\ balance[EscrowHolding(e)] > 0
                  /\ Elapsed(e) = 86400) =>
                 burn_expired_escrow(e, EscrowHolding(e)).err = "EscrowNotExpired"
          /\ (access_escrow[e].exists /\ balance[EscrowHolding(e)] > 0
                  /\ Elapsed(e) = 86401) =>
                 burn_expired_escrow(e, EscrowHolding(e)).err = "Ok"

\* C6: a purchase_access or create_access_escrow by a purchaser whose escrow
\* record exists fails and moves no token, for every amount, cid hash and
\* mint; no step that commits a purchase starts with the purchaser's record
\* existing, and it leaves every other record as it was.
C6_OneEscrowPerPurchaser ==
    /\ [](\A p \in Purchasers : access_escrow[p].exists =>
            /\ access_escrow[p].purchaser = p
            /\ \A cid_hash \in CidHashes, m \in Mints :
                  /\ \A total_amount \in PurchaseAmounts :
                        LET r == purchase_access(p, total_amount, cid_hash, m)
                        IN  r.err # "Ok" /\ r.balance = balance
                  /\ \A amount_locked \in LegacyAmounts, to \in LegacyDestinations(p, m) :
                        LET r == create_access_escrow(p, amount_locked, cid_hash,
                                                      Holding(p, m), to, m)
                        IN  r.err # "Ok" /\ r.balance = balance)
    /\ [][counters'.purchases > counters.purchases =>
            /\ ~access_escrow[last'.escrow].exists
            /\ \A p \in Purchasers \ {last'.escrow} : access_escrow'[p] = access_escrow[p]
         ]_vars

\* The escrow record of p1 exists with 490 tokens locked, p1 still has the
\* tokens for another purchase, and that purchase is refused.
C6_Witness ==
    /\ access_escrow["p1"].exists
    /\ access_escrow["p1"].amount_locked = 490
    /\ balance[Holding("p1", CollectionMint)] >= 3
    /\ purchase_access("p1", 3, CollectionCidHash, CollectionMint).err = "AccountAlreadyInUse"
    /\ create_access_escrow("p1", 100, CollectionCidHash, Holding("p1", CollectionMint),
                            EscrowHolding("p1"), CollectionMint).err = "AccountAlreadyInUse"

\* C7: release_escrow succeeds only if the caller is the escrow's recorded
\* purchaser, peer_wallets and peer_weights have the same non-zero length of
\* at most MAX_PEER_LIST_LENGTH, the weights sum to more than 0 and
\* amount_locked > 0; a release_escrow that fails moves no token and leaves
\* the escrow, every PeerTrustState and the collection unchanged.
C7_ReleaseRequirements ==
    \A q \in Purchasers, e \in Purchasers : \A inp \in ReleaseInputs(e) :
        LET r == release_escrow(q, e, inp)
        IN  /\ r.err = "Ok" =>
                  /\ access_escrow[e].exists
                  /\ q = access_escrow[e].purchaser
                  /\ Len(inp.peer_wallets) = Len(inp.peer_weights)
                  /\ Len(inp.peer_wallets) > 0
                  /\ Len(inp.peer_wallets) <= MAX_PEER_LIST_LENGTH
                  /\ SeqSum(inp.peer_weights) > 0
                  /\ access_escrow[e].amount_locked > 0
            /\ r.err # "Ok" =>
                  /\ r.balance = balance
                  /\ r.escrow = access_escrow[e]
                  /\ r.peer_trust = peer_trust
                  /\ r.total_trust_score = total_trust_score

\* An escrow on which a plain release would succeed, while the same release
\* by another caller, with lists of different length, with no peer, with
\* four peers or with weights that sum to 0 fails.
C7_Witness ==
    \E e \in Purchasers :
        /\ release_escrow(e, e, PlainRelease(e)).err = "Ok"
        /\ \E q \in Purchasers \ {e} : release_escrow(q, e, PlainRelease(e)).err # "Ok"
        /\ release_escrow(e, e, ReleaseInput(e, <<"w1">>, <<1, 1>>, CollectionMint)).err
               = "InvalidFeeConfig"
        /\ release_escrow(e, e, ReleaseInput(e, <<>>, <<>>, CollectionMint)).err
               = "InvalidFeeConfig"
        /\ release_escrow(e, e, ReleaseInput(e, <<"w1", "w2", "w1", "w2">>, <<1, 1, 1, 1>>,
                                             CollectionMint)).err = "PeerListTooLong"
        /\ release_escrow(e, e, ReleaseInput(e, <<"w1">>, <<0>>, CollectionMint)).err
               = "InvalidFeeConfig"

\* C8: a successful release_escrow of locked amount L with weights w_1..w_n
\* of sum W pays peer i exactly floor(L*w_i/W), so the clamp to the remaining
\* balance reduces no share; each holding gains the shares of the list
\* positions that name it.  L = 100 with weights [1,1,1] pays [33,33,33],
\* takes 99 out of the escrow holding and sets amount_locked to 0.
C8_ReleaseShares ==
    [][\A e \in Purchasers : ReleaseStep(e) =>
         LET L == access_escrow[e].amount_locked
             inp == last'.input
             n == Len(inp.peer_wallets)
             W == SeqSum(inp.peer_weights)
             share == [i \in 1..n |-> Floor(L * inp.peer_weights[i], W)]
         IN  /\ last'.out.paid = share
             /\ \A h \in Holdings \ {inp.escrow_token_account} :
                   Gain(h) = SetSum(share, {i \in 1..n : inp.remaining_accounts[i].token = h})
             /\ (L = 100 /\ inp.peer_weights = <<1, 1, 1>>) =>
                   /\ last'.out.paid = <<33, 33, 33>>
                   /\ Gain(inp.escrow_token_account) = -99
                   /\ access_escrow'[e].amount_locked = 0
      ]_vars

\* The release of 100 locked tokens with weights [1,1,1] has paid 33, 33 and
\* 33 and left 1 token in the escrow holding, with amount_locked 0.
C8_Witness ==
    /\ last.op = "release_escrow"
    /\ last.input.peer_weights = <<1, 1, 1>>
    /\ last.out = [paid |-> <<33, 33, 33>>, amount_locked |-> 100]
    /\ balance[last.input.escrow_token_account] = 1
    /\ access_escrow[last.escrow].amount_locked = 0

\* C9: a successful release_escrow pays a non-zero share only into a token
\* account whose owner is the peer wallet at the same list position and
\* whose mint is the collection's token mint.
C9_ReleaseDestinations ==
    \A q \in Purchasers, e \in Purchasers : \A inp \in ReleaseInputs(e) :
        LET r == release_escrow(q, e, inp)
        IN  r.err = "Ok" =>
              \A i \in 1..Len(r.paid) : r.paid[i] > 0 =>
                  /\ inp.remaining_accounts[i].token.owner = inp.peer_wallets[i]
                  /\ inp.remaining_accounts[i].token.mint = CollectionMint

\* C10: once now - created_at > ESCROW_EXPIRY_SECONDS, burn_expired_escrow
\* on an escrow whose holding has tokens succeeds, destroys the whole balance
\* of the escrow's holding and reduces the supply by it; after a successful
\* burn_expired_escrow the escrow record is closed and the escrow's holding
\* is empty.
C10_BurnDestroysEscrowBalance ==
    \A e \in Purchasers :
        /\ (access_escrow[e].exists /\ Elapsed(e) > ESCROW_EXPIRY_SECONDS
                /\ balance[EscrowHolding(e)] > 0) =>
              LET r == burn_expired_escrow(e, EscrowHolding(e))
              IN  /\ r.err = "Ok"
                  /\ r.balance[EscrowHolding(e)] = 0
                  /\ r.supply[CollectionMint]
                        = supply[CollectionMint] - balance[EscrowHolding(e)]
        /\ (last.op = "burn_expired_escrow" /\ last.escrow = e) =>
              /\ ~access_escrow[e].exists
              /\ balance[EscrowHolding(e)] = 0

(***************************************************************************)
(* The life cycle of an escrow record.                                     *)
(***************************************************************************)
\* A step that commits release_escrow on the escrow of purchaser e: only a
\* release changes the collection's total_trust_score.
ReleaseCommitted(e) ==
    /\ last'.op = "release_escrow"
    /\ last'.escrow = e
    /\ total_trust_score' # total_trust_score

\* A step that commits burn_expired_escrow on the escrow of purchaser e: only
\* a burn changes the supply.
BurnCommitted(e) ==
    /\ last'.op = "burn_expired_escrow"
    /\ last'.escrow = e
    /\ supply' # supply

C12_ExpiredEscrowRemovable ==
    \A e \in Purchasers :
        (access_escrow[e].exists /\ Elapsed(e) > ESCROW_EXPIRY_SECONDS) =>
            LET r == burn_expired_escrow(e, EscrowHolding(e))
            IN  /\ r.err = "Ok"
                /\ r.burned = balance[EscrowHolding(e)]

(***************************************************************************)
(* Rejected purchases.                                                     *)
(***************************************************************************)
\* C14: purchase_access with total_amount = 0, on a blacklisted collection,
\* or with a cid_hash other than the collection's fails, by any purchaser in
\* any state; it creates no escrow, moves no token and leaves the staking
\* pool, reward_per_token included, as it was.
C14_PurchaseRejected ==
    \A p \in Purchasers, total_amount \in PurchaseAmounts, cid_hash \in CidHashes,
       collection_mint \in Mints :
        (total_amount = 0 \/ is_blacklisted \/ cid_hash # CollectionCidHash) =>
            LET r == purchase_access(p, total_amount, cid_hash, collection_mint)
            IN  /\ r.err \in {"AccountAlreadyInUse", "InsufficientFunds", "Unauthorized"}
                /\ r.escrow = NoEscrow
                /\ r.balance = balance
                /\ r.staking_pool.reward_per_token = staking_pool.reward_per_token

\* The collection is blacklisted while tokens are staked, and p1 has no
\* escrow and the tokens for a purchase of 1000 with the right cid_hash; the
\* purchase is refused, as is one of 0 tokens and one with another cid_hash.
C14_Witness ==
    /\ is_blacklisted
    /\ staking_pool.total_staked > 0
    /\ ~access_escrow["p1"].exists
    /\ balance[Holding("p1", CollectionMint)] >= 1000
    /\ purchase_access("p1", 1000, CollectionCidHash, CollectionMint).err = "Unauthorized"
    /\ purchase_access("p1", 0, CollectionCidHash, CollectionMint).err = "InsufficientFunds"
    /\ purchase_access("p1", 1000, "other_cid", CollectionMint).err = "Unauthorized"

(***************************************************************************)
(* Properties of the staking pool.                                         *)
(***************************************************************************)
\* C15: after any sequence of stakes, unstakes, claims and purchases, the
\* rewards paid out by claim_staking_rewards and as the reward part of
\* unstake_collection_tokens sum to at most the tokens that purchases
\* credited to the pool.
C15_NoOverDistribution == counters.rewarded <= counters.credited

\* Two stakers with 100 and 200 tokens staked have been paid 163 and 326 of
\* the 490 tokens a purchase credited.
C15_Witness ==
    /\ counters.credited = 490
    /\ counters.rewarded = 163 + 326
    /\ staker_position["p1"].exists /\ staker_position["p1"].amount_staked = 200
    /\ staker_position["p2"].exists /\ staker_position["p2"].amount_staked = 100

\* The tokens staker s has staked according to its StakerPosition record.
StakedBy(s) == IF staker_position[s].exists THEN staker_position[s].amount_staked ELSE 0

\* C16: in every reachable state the staking pool's total_staked is the sum
\* of amount_staked over the StakerPosition records of the collection.
C16_TotalStakedIsSumOfPositions ==
    staking_pool.total_staked = SetSum([s \in Stakers |-> StakedBy(s)], Stakers)

\* Both stakers hold a stake and an unstake of part of a stake has just
\* committed.
C16_Witness ==
    /\ last.op = "unstake_collection_tokens"
    /\ last.input.amount = 100
    /\ StakedBy("p1") = 100
    /\ StakedBy("p2") = 100
    /\ staking_pool.total_staked = 200

\* C17: across purchases, harvests, stakes, unstakes, claims and
\* registrations, in any order, neither the staking pool's reward_per_token
\* nor the collection's acc_reward_per_share ever decreases.
C17_AccumulatorsNeverDecrease ==
    [][/\ staking_pool'.reward_per_token >= staking_pool.reward_per_token
       /\ collection_rewards'.acc_reward_per_share
              >= collection_rewards.acc_reward_per_share
      ]_vars

\* A second harvest has just raised acc_reward_per_share from 200 to 300
\* tokens per share, and a purchase has raised reward_per_token.
C17_Witness ==
    /\ last.op = "harvest_fees"
    /\ counters.harvests = 2
    /\ collection_rewards.total_shares = 1
    /\ collection_rewards.acc_reward_per_share = 300 * REWARD_PRECISION
    /\ staking_pool.reward_per_token > 0

\* C18: a purchase that credits amount A to the staking pool raises
\* reward_per_token by exactly floor(A * REWARD_PRECISION / total_staked) when
\* total_staked > 0 and leaves it unchanged when total_staked = 0; in both
\* cases the A tokens arrive in the pool's holding.
C18_PurchaseCreditsRewardPerToken ==
    [][PurchaseStep =>
         LET A == last'.out.to_stakers
             staked == staking_pool.total_staked
             increment == staking_pool'.reward_per_token - staking_pool.reward_per_token
         IN  /\ Gain(Holding(StakingPoolPDA, last'.input.mint)) = A
             /\ staking_pool'.total_staked = staked
             /\ staked > 0 =>
                    /\ increment * staked <= A * REWARD_PRECISION
                    /\ (increment + 1) * staked > A * REWARD_PRECISION
             /\ staked = 0 => increment = 0
      ]_vars

\* A purchase has credited 490 tokens to a pool with 300 tokens staked, and
\* 490 * REWARD_PRECISION is not a multiple of 300.
C18_Witness ==
    /\ last.op = "purchase_access"
    /\ last.out.to_stakers = 490
    /\ staking_pool.total_staked = 300
    /\ staking_pool.reward_per_token = Floor(490 * REWARD_PRECISION, 300)
    /\ staking_pool.reward_per_token * 300 < 490 * REWARD_PRECISION
    /\ balance[Holding(StakingPoolPDA, CollectionMint)] = 300 + 490

\* C19: for a staker with a stake, claim_staking_rewards with the pool's
\* holding as its source pays exactly
\* floor((amount_staked * reward_per_token - reward_debt) / REWARD_PRECISION)
\* from that holding to the staker and sets reward_debt to
\* amount_staked * reward_per_token; when that amount is 0 it fails and
\* changes nothing.
C19_ClaimPaysPendingReward ==
    \A s \in Stakers :
        LET position == staker_position[s]
            pool_holding == Holding(StakingPoolPDA, CollectionMint)
            staker_holding == Holding(s, CollectionMint)
            owed == position.amount_staked * staking_pool.reward_per_token
            reward == Floor(owed - position.reward_debt, REWARD_PRECISION)
            r == claim_staking_rewards(s, staker_holding, pool_holding, CollectionMint)
        IN  (position.exists /\ position.amount_staked > 0) =>
                IF reward > 0 /\ balance[pool_holding] >= reward
                THEN /\ r.err = "Ok"
                     /\ r.balance = [balance EXCEPT ![pool_holding] = @ - reward,
                                                    ![staker_holding] = @ + reward]
                     /\ r.position = [position EXCEPT !.reward_debt = owed]
                     /\ r.staking_pool = staking_pool
                ELSE reward = 0 =>
                         /\ r.err # "Ok"
                         /\ r.balance = balance
                         /\ r.position = position
                         /\ r.staking_pool = staking_pool

\* A step that commits unstake_collection_tokens.
UnstakeStep ==
    /\ last'.op = "unstake_collection_tokens"
    /\ counters'.staking_calls = counters.staking_calls + 1

\* C20: unstake_collection_tokens(amount) succeeds only if
\* 0 < amount <= position.amount_staked; a call that succeeds moves amount
\* plus the staker's pending reward in one transfer to the staker, lowers
\* pool.total_staked and position.amount_staked by amount and sets
\* reward_debt to the new amount_staked times reward_per_token; a call that
\* fails changes nothing.
C20_UnstakeReturnsStakeAndReward ==
    [][/\ \A s \in Stakers, amount \in StakeAmounts, source \in PoolTokenAccounts :
              LET r == unstake_collection_tokens(s, amount, Holding(s, CollectionMint),
                                                 source, CollectionMint)
              IN  /\ r.err = "Ok" =>
                         /\ staker_position[s].exists
                         /\ 0 < amount
                         /\ amount <= staker_position[s].amount_staked
                  /\ r.err # "Ok" =>
                         /\ r.balance = balance
                         /\ r.staking_pool = staking_pool
                         /\ r.position = staker_position[s]
       /\ UnstakeStep =>
              LET s == last'.caller
                  amount == last'.input.amount
                  source == last'.input.pool_token_account
                  to == last'.input.staker_token_account
                  position == staker_position[s]
                  reward == Floor(position.amount_staked * staking_pool.reward_per_token
                                      - position.reward_debt, REWARD_PRECISION)
              IN  /\ 0 < amount /\ amount <= position.amount_staked
                  /\ Gain(source) = -(amount + reward)
                  /\ Gain(to) = amount + reward
                  /\ \A h \in Holdings \ {source, to} : Gain(h) = 0
                  /\ staking_pool'.total_staked = staking_pool.total_staked - amount
                  /\ staking_pool'.reward_per_token = staking_pool.reward_per_token
                  /\ staker_position'[s].amount_staked = position.amount_staked - amount
                  /\ staker_position'[s].reward_debt =
                         (position.amount_staked - amount) * staking_pool.reward_per_token
                  /\ \A o \in Stakers \ {s} : staker_position'[o] = staker_position[o]
      ]_vars

\* p1, with 200 tokens staked and a pending reward of 326 tokens, has
\* unstaked 100 of them and received 426 tokens in one transfer.
C20_Witness ==
    /\ last.op = "unstake_collection_tokens"
    /\ last.caller = "p1"
    /\ last.input.amount = 100
    /\ last.out.pending_tokens = 326
    /\ last.out.transferred = 426
    /\ StakedBy("p1") = 100
    /\ staker_position["p1"].reward_debt = 100 * staking_pool.reward_per_token
    /\ staking_pool.total_staked = 200

\* C13: for as long as an escrow record exists, under every operation of the
\* program, its amount_locked never increases and never exceeds the amount
\* it was created with, and its created_at stays the time of its creation.
C13_EscrowAmountAndCreationTime ==
    [][\A e \in Purchasers :
           /\ (access_escrow[e].exists /\ access_escrow'[e].exists) =>
                  /\ access_escrow'[e].amount_locked <= access_escrow[e].amount_locked
                  /\ access_escrow'[e].created_at = access_escrow[e].created_at
           /\ access_escrow'[e].exists =>
                  /\ access_escrow'[e].amount_locked <= created'[e].amount_locked
                  /\ access_escrow'[e].created_at = created'[e].created_at
      ]_vars

\* p1's escrow, created at time ESCROW_EXPIRY_SECONDS with 490 tokens locked,
\* has had its CID revealed and has been released, and p1 has since staked
\* and unstaked while the record still exists.
C13_Witness ==
    /\ last.op = "unstake_collection_tokens"
    /\ last.caller = "p1"
    /\ access_escrow["p1"].exists
    /\ access_escrow["p1"].is_cid_revealed
    /\ access_escrow["p1"].amount_locked = 0
    /\ created["p1"].amount_locked = 490
    /\ created["p1"].released
    /\ access_escrow["p1"].created_at = ESCROW_EXPIRY_SECONDS
    /\ now = ESCROW_EXPIRY_SECONDS + 1

\* A step that commits stake_collection_tokens.
StakeStep ==
    /\ last'.op = "stake_collection_tokens"
    /\ counters'.staking_calls = counters.staking_calls + 1

\* C21: stake_collection_tokens(amount) fails when amount = 0; a call that
\* succeeds moves amount from the staker's holding to the pool's holding,
\* adds amount to pool.total_staked and to position.amount_staked, sets
\* position.reward_debt to the new amount_staked times reward_per_token and
\* leaves reward_per_token unchanged.
C21_StakeMovesTokensIntoPool ==
    [][/\ \A s \in Stakers, account \in PoolTokenAccounts :
              stake_collection_tokens(s, 0, Holding(s, CollectionMint), account,
                                      CollectionMint).err # "Ok"
       /\ StakeStep =>
              LET s == last'.caller
                  amount == last'.input.amount
                  mint == last'.input.mint
                  staked == StakedBy(s)
              IN  /\ amount > 0
                  /\ Gain(Holding(s, mint)) = -amount
                  /\ Gain(Holding(StakingPoolPDA, mint)) = amount
                  /\ staking_pool'.total_staked = staking_pool.total_staked + amount
                  /\ staker_position'[s].amount_staked = staked + amount
                  /\ staker_position'[s].reward_debt =
                         (staked + amount) * staking_pool.reward_per_token
                  /\ staking_pool'.reward_per_token = staking_pool.reward_per_token
      ]_vars

\* A step that commits harvest_fees.
HarvestStep ==
    /\ last'.op = "harvest_fees"
    /\ counters'.harvests = counters.harvests + 1

\* share is floor(amount * percent / 100).
IsFloorPercent(share, amount, percent) ==
    /\ share * 100 <= amount * percent
    /\ (share + 1) * 100 > amount * percent

\* C25: harvest_fees splits the harvested amount H into owner =
\* floor(H * 20 / 100), performer = floor(H * 20 / 100), stakers =
\* floor(H * 10 / 100) and hosting peers = floor(H * 50 / 100) plus what the
\* four floors leave of H, so the four buckets sum to exactly H and the
\* remainder, between 0 and 3 units, goes to the hosting peers' bucket.
C25_HarvestSplitsExactly ==
    [][HarvestStep =>
         LET H == last'.input.harvested_amount
             share == last'.out
             remainder == H - (Floor(H * 50, 100) + Floor(H * 20, 100)
                                   + Floor(H * 20, 100) + Floor(H * 10, 100))
         IN  /\ H = balance[FeeVault]
             /\ IsFloorPercent(share.owner, H, 20)
             /\ IsFloorPercent(share.performer, H, 20)
             /\ IsFloorPercent(share.staker, H, 10)
             /\ IsFloorPercent(share.pinner - remainder, H, 50)
             /\ remainder \in 0..3
             /\ share.pinner + share.owner + share.performer + share.staker = H
             /\ collection_rewards'.reward_pool_balance
                    = collection_rewards.reward_pool_balance + share.pinner
             /\ collection_rewards'.owner_reward_balance
                    = collection_rewards.owner_reward_balance + share.owner
             /\ performer_escrow'.balance = performer_escrow.balance + share.performer
             /\ collection_rewards'.staker_reward_balance
                    = collection_rewards.staker_reward_balance + share.staker
      ]_vars

\* A harvest of 7 tokens: 1 to the owner, 1 to the performer, 0 to the
\* stakers, and 3 plus the remainder of 2 to the hosting peers.
C25_Witness ==
    /\ last.op = "harvest_fees"
    /\ last.input.harvested_amount = 7
    /\ last.out = [pinner |-> 5, owner |-> 1, performer |-> 1, staker |-> 0]
    /\ collection_rewards.reward_pool_balance = 5

\* The unscaled reward of hosting peer w: shares * acc_reward_per_share minus
\* reward_debt.
UnscaledPending(w) ==
    pinner_state[w].shares * collection_rewards.acc_reward_per_share
        - pinner_state[w].reward_debt

\* C26: a hosting peer's claim_rewards fails when
\* floor((shares * acc_reward_per_share - reward_debt) / REWARD_PRECISION) is
\* 0, also when the unscaled value is not 0, and the failed call leaves
\* reward_debt, reward_pool_balance and every balance as they were.
C26_DustClaimRejected ==
    \A w \in Peers :
        LET r == claim_rewards(w, FeeVault, Holding(w, CollectionMint))
        IN  (/\ pinner_state[w].exists
             /\ UnscaledPending(w) >= 0
             /\ Floor(UnscaledPending(w), REWARD_PRECISION) = 0) =>
                /\ r.err # "Ok"
                /\ r.pinner = pinner_state[w]
                /\ r.rewards = collection_rewards
                /\ r.balance = balance

\* Two hosting peers share a harvest of 1 token: w1's unscaled reward is
\* half a token, its claim is refused, and the fee vault holds the token.
C26_Witness ==
    /\ collection_rewards.total_shares = 2
    /\ pinner_state["w1"].exists
    /\ UnscaledPending("w1") > 0
    /\ UnscaledPending("w1") < REWARD_PRECISION
    /\ balance[FeeVault] = 1
    /\ collection_rewards.reward_pool_balance = 1
    /\ claim_rewards("w1", FeeVault, Holding("w1", CollectionMint)).err
           = "InsufficientFunds"

\* The entries of a release's peer list that name peer w and whose share of
\* amount_locked is more than 0.
PaidEntries(inp, amount_locked, w) ==
    {i \in 1..Len(inp.peer_wallets) :
        /\ inp.peer_wallets[i] = w
        /\ (amount_locked * inp.peer_weights[i]) \div SeqSum(inp.peer_weights) > 0}

\* C27: a successful release_escrow adds, for every list entry whose share
\* is more than 0 and whose PeerTrustState exists, 1 to
\* total_successful_serves and the entry's weight to trust_score and sets
\* last_active to now; entries with share 0 change no PeerTrustState; and
\* total_trust_score grows by the sum of all weights of the list.
C27_ReleaseUpdatesTrust ==
    [][\A e \in Purchasers : ReleaseCommitted(e) =>
         LET inp == last'.input
             amount_locked == access_escrow[e].amount_locked
         IN  /\ total_trust_score' = total_trust_score + SeqSum(inp.peer_weights)
             /\ \A w \in Peers :
                    LET entries == PaidEntries(inp, amount_locked, w)
                        state == peer_trust[w]
                    IN  IF state.exists /\ entries # {}
                        THEN peer_trust'[w] =
                               [state EXCEPT
                                  !.total_successful_serves = @ + Cardinality(entries),
                                  !.trust_score =
                                      @ + SetSum([i \in entries |-> inp.peer_weights[i]],
                                                 entries),
                                  !.last_active = now]
                        ELSE peer_trust'[w] = state
      ]_vars

\* A release to w1 and w2 with weights 2 and 1, at a later time than the
\* peers' trust records were created.
C27_Witness ==
    /\ last.op = "release_escrow"
    /\ last.input.peer_weights = <<2, 1>>
    /\ last.out.paid = <<326, 163>>
    /\ now = ESCROW_EXPIRY_SECONDS
    /\ peer_trust["w1"].exists /\ peer_trust["w1"].trust_score = 2
    /\ peer_trust["w1"].total_successful_serves = 1
    /\ peer_trust["w1"].last_active = now
    /\ peer_trust["w2"].exists /\ peer_trust["w2"].trust_score = 1
    /\ total_trust_score = 3

\* C28: release_escrow to a peer whose PeerTrustState was never initialized
\* does not fail: the peer is paid its share, no trust record changes, and
\* the release completes.
C28_ReleaseSkipsMissingTrustState ==
    \A e \in Purchasers, w \in Peers :
        LET escrow == access_escrow[e]
            inp == ReleaseInput(e, <<w>>, <<1>>, CollectionMint)
            r == release_escrow(e, e, inp)
        IN  (/\ escrow.exists
             /\ release_in_time(now, escrow.created_at)
             /\ escrow.amount_locked > 0
             /\ balance[inp.escrow_token_account] >= escrow.amount_locked
             /\ ~peer_trust[w].exists) =>
                /\ r.err = "Ok"
                /\ r.paid = <<escrow.amount_locked>>
                /\ r.balance[Holding(w, CollectionMint)]
                       = balance[Holding(w, CollectionMint)] + escrow.amount_locked
                /\ r.peer_trust = peer_trust
                /\ r.escrow.amount_locked = 0


(***************************************************************************)
(* The administration of GlobalState, with purchases paying their fee to   *)
(* the treasury that GlobalState names.                                    *)
(***************************************************************************)
NextAdmin ==
    \/ UpdateGlobalState
    \/ DisableGlobalStateUpdates
    \/ PurchaseAccess

SpecAdmin == Init /\ [][NextAdmin]_vars

\* C29: once disable_global_state_updates has succeeded, updates_disabled
\* stays true, every update_global_state and every
\* disable_global_state_updates fails, and fee_basis_points and treasury
\* never change again.
C29_UpdatesDisabledIsIrreversible ==
    /\ [](global_state.updates_disabled =>
            /\ \A caller \in AdminCallers, fee_option \in FeeOptions,
                  new_treasury \in TreasuryAccounts :
                  update_global_state(caller, fee_option, new_treasury).err # "Ok"
            /\ \A caller \in AdminCallers :
                  disable_global_state_updates(caller).err # "Ok")
    /\ [][global_state.updates_disabled =>
              /\ global_state'.updates_disabled
              /\ global_state'.treasury = global_state.treasury
              /\ fee_basis_points' = fee_basis_points]_vars

\* Updates were disabled after the treasury had been replaced, and a
\* purchase has paid its fee since.
C29_Witness ==
    /\ global_state.updates_disabled
    /\ global_state.treasury = CollectionOwner
    /\ last.op = "purchase_access"
    /\ last.out.total_fee > 0


(***************************************************************************)
(* A collection from its creation at time 0: the one-time mint, copyright  *)
(* claims against the claim vault, other reports, and the burn of what is  *)
(* unclaimed at the deadline.  The claim vault is either of ClaimVaults;   *)
(* no collection token exists before the mint.                             *)
(***************************************************************************)
InitClaims ==
    /\ now = 0
    /\ is_blacklisted = FALSE
    /\ total_trust_score = 0
    /\ staking_pool = [total_staked |-> 0, reward_per_token |-> 0]
    /\ access_escrow = [p \in Purchasers |-> NoEscrow]
    /\ peer_trust = [w \in Peers |-> NoTrust]
    /\ cid_reveal = {}
    /\ fee_basis_points = 200
    /\ balance = [h \in Holdings |-> 0]
    /\ supply = [m \in Mints |-> 0]
    /\ staker_position = [s \in Stakers |-> NoPosition]
    /\ collection_rewards = NoRewards
    /\ performer_escrow = [balance |-> 0]
    /\ pinner_state = [w \in Peers |-> NoPinner]
    /\ ticket = [t \in Tickets |-> NoTicket]
    /\ global_state = InitialGlobalState
    /\ \E claim_vault \in ClaimVaults :
          collection_claims = create_collection(claim_vault, TotalVideos, 0)
    /\ created = [p \in Purchasers |-> NotCreated]
    /\ counters = NoCounters
    /\ last = NoCall

NextClaims ==
    \/ TickVesting
    \/ MintCollectionTokens
    \/ CreateTicket
    \/ ResolveTicket
    \/ ResolveCopyrightClaim
    \/ BurnUnclaimedTokens

SpecClaims == InitClaims /\ [][NextClaims]_vars

\* C30: mint_collection_tokens succeeds at most once per collection: a mint
\* commits only while tokens_minted is false and sets
\* claim_vault_initial_amount to floor(amount * 10 / 100); afterwards
\* tokens_minted stays true, every mint fails, and no operation (copyright
\* payouts and burn_unclaimed_tokens included) changes
\* claim_vault_initial_amount.
C30_MintHappensOnce ==
    /\ [](collection_claims.tokens_minted =>
            \A creator \in {CollectionOwner, "p1"}, amount \in MintAmounts :
                mint_collection_tokens(creator, amount).err # "Ok")
    /\ [][/\ last'.op = "mint_collection_tokens" =>
                /\ ~collection_claims.tokens_minted
                /\ collection_claims'.tokens_minted
                /\ LET initial == collection_claims'.claim_vault_initial_amount
                   IN  /\ initial * 100 <= last'.input.amount * 10
                       /\ (initial + 1) * 100 > last'.input.amount * 10
          /\ collection_claims.tokens_minted =>
                /\ collection_claims'.tokens_minted
                /\ collection_claims'.claim_vault_initial_amount
                      = collection_claims.claim_vault_initial_amount]_vars

\* After the mint of 10000 tokens a copyright claim has been paid from the
\* claim vault, which now holds less than the 1000 tokens it was minted.
C30_Witness ==
    /\ collection_claims.tokens_minted
    /\ collection_claims.claim_vault_initial_amount = 1000
    /\ last.op = "resolve_copyright_claim"
    /\ last.out.payout > 0
    /\ balance[collection_claims.claim_vault] < 1000

\* C22: a bit of claimed_bitmap is set only by an approved
\* resolve_copyright_claim, which sets the bits of its ticket's indices, and
\* no operation clears a bit; while a bit is set, every approving
\* resolve_copyright_claim on a ticket whose claim list contains its index
\* fails, and no resolve_copyright_claim on such a ticket changes the claim
\* vault's balance or the bitmap.
C22_ClaimedBitsStay ==
    /\ [](\A t \in Tickets, verdict \in BOOLEAN, claimant \in ClaimantAccounts, m \in Mints :
            (/\ ticket[t].exists
             /\ ticket[t].ticket_type = "CopyrightClaim"
             /\ Range(ticket[t].claim_indices) \cap collection_claims.claimed_bitmap # {})
            => LET r == resolve_copyright_claim(t, verdict, claimant, m)
               IN  /\ verdict => r.err # "Ok"
                   /\ r.balance = balance
                   /\ r.collection_claims = collection_claims)
    /\ [][/\ collection_claims.claimed_bitmap \subseteq collection_claims'.claimed_bitmap
          /\ collection_claims'.claimed_bitmap # collection_claims.claimed_bitmap =>
                /\ last'.op = "resolve_copyright_claim"
                /\ last'.input.verdict
                /\ collection_claims'.claimed_bitmap
                      = collection_claims.claimed_bitmap \cup Range(last'.input.claim_indices)]_vars

\* The claim of the indices [0, 1] was paid 200 of the 1000 tokens in the
\* vault, and the other ticket claims [0] again and is unresolved.
C22_Witness ==
    /\ collection_claims.claimed_bitmap = {0, 1}
    /\ balance[collection_claims.claim_vault] = 800
    /\ \E t \in Tickets :
          /\ ticket[t].exists
          /\ ticket[t].ticket_type = "CopyrightClaim"
          /\ ~ticket[t].resolved
          /\ ticket[t].claim_indices = <<0>>

\* The share of one video, floor(claim_vault_initial_amount / total_videos),
\* times the number of indices in the list.
ProportionalPayout(claim_indices) ==
    (collection_claims.claim_vault_initial_amount \div collection_claims.total_videos)
        * Len(claim_indices)

\* A step that is a committed approving resolve_copyright_claim.
ApprovedClaimStep == last'.op = "resolve_copyright_claim" /\ last'.input.verdict

\* C23: an approving resolve_copyright_claim commits only on an unresolved
\* CopyrightClaim ticket of a collection with tokens_minted and
\* claim_vault_initial_amount > 0; the claim vault then pays exactly
\* floor(claim_vault_initial_amount / total_videos) times the number of
\* indices in the ticket, and an approval fails when that amount is 0.
C23_ApprovedClaimPaysProportionally ==
    /\ [](\A t \in Tickets, claimant \in ClaimantAccounts, m \in Mints :
            (ticket[t].exists /\ ProportionalPayout(ticket[t].claim_indices) = 0)
            => resolve_copyright_claim(t, TRUE, claimant, m).err # "Ok")
    /\ [][ApprovedClaimStep =>
              LET t == last'.input.ticket
                  claim_vault == collection_claims.claim_vault
              IN  /\ ticket[t].exists
                  /\ ~ticket[t].resolved
                  /\ ticket[t].ticket_type = "CopyrightClaim"
                  /\ collection_claims.tokens_minted
                  /\ collection_claims.claim_vault_initial_amount > 0
                  /\ last'.out.payout = ProportionalPayout(ticket[t].claim_indices)
                  /\ balance'[claim_vault] = balance[claim_vault] - last'.out.payout]_vars

\* C23 for the approvals whose claimant account is not the claim vault
\* itself.
C23_PaysProportionallyToOthers ==
    [][(ApprovedClaimStep /\ last'.input.claimant_token_account # collection_claims.claim_vault)
        => LET t == last'.input.ticket
               claim_vault == collection_claims.claim_vault
           IN  /\ ~ticket[t].resolved
               /\ ticket[t].ticket_type = "CopyrightClaim"
               /\ collection_claims.claim_vault_initial_amount > 0
               /\ last'.out.payout = ProportionalPayout(ticket[t].claim_indices)
               /\ last'.out.payout > 0
               /\ balance'[claim_vault] = balance[claim_vault] - last'.out.payout
               /\ balance'[last'.input.claimant_token_account]
                     = balance[last'.input.claimant_token_account] + last'.out.payout]_vars

(***************************************************************************)
(* A collection in its vesting period, created at time 0: 10000 tokens     *)
(* were minted, the claim vault holds its 1000, and p1 holds tokens that   *)
(* came out of the liquidity reserve.  p1 buys access and releases the     *)
(* escrow to peers while a copyright claim is filed and resolved.          *)
(***************************************************************************)
InitAtomic ==
    /\ now = 0
    /\ is_blacklisted = FALSE
    /\ total_trust_score = 0
    /\ staking_pool = [total_staked |-> 0, reward_per_token |-> 0]
    /\ access_escrow = [p \in Purchasers |-> NoEscrow]
    /\ peer_trust = [w \in Peers |-> NoTrust]
    /\ cid_reveal = {}
    /\ fee_basis_points = 200
    /\ \E claim_vault \in ClaimVaults :
          /\ collection_claims =
                 [create_collection(claim_vault, TotalVideos, 0)
                     EXCEPT !.tokens_minted = TRUE, !.claim_vault_initial_amount = 1000]
          /\ balance = [h \in Holdings |->
                           IF h = claim_vault THEN 1000
                           ELSE IF h = Holding(CollectionOwner, CollectionMint) THEN 1000
                           ELSE IF h = Holding("p1", CollectionMint) THEN InitialBalance
                           ELSE IF h = Holding(CollectionPDA, CollectionMint)
                               THEN 8000 - InitialBalance
                           ELSE 0]
    /\ supply = [m \in Mints |-> TotalTokens(balance, m)]
    /\ staker_position = [s \in Stakers |-> NoPosition]
    /\ collection_rewards = NoRewards
    /\ performer_escrow = [balance |-> 0]
    /\ pinner_state = [w \in Peers |-> NoPinner]
    /\ ticket = [t \in Tickets |-> NoTicket]
    /\ global_state = InitialGlobalState
    /\ created = [p \in Purchasers |-> NotCreated]
    /\ counters = NoCounters
    /\ last = NoCall

NextAtomic ==
    \/ PurchaseAccess /\ last'.input.total_amount = 1000
    \/ InitializePeerTrustState
    \/ ReleaseEscrow
    \/ CreateTicket /\ last'.input.ticket_type = "CopyrightClaim"
    \/ ResolveCopyrightClaim

SpecAtomic == InitAtomic /\ [][NextAtomic]_vars

\* A release that pays its first peer and fails at a later one.
FailsAtLaterPeer(e, inp) ==
    /\ access_escrow[e].exists
    /\ Len(inp.peer_wallets) >= 2
    /\ Len(inp.peer_weights) = Len(inp.peer_wallets)
    /\ Len(inp.remaining_accounts) >= Len(inp.peer_wallets)
    /\ iter_sum(inp.peer_weights) > 0
    /\ LET first == pay_peer(LoopStart, e, inp, 1, access_escrow[e].amount_locked,
                             iter_sum(inp.peer_weights))
       IN  first.err = "Ok" /\ first.total_sent > 0
    /\ release_escrow(e, e, inp).err \in {"Unauthorized", "MathOverflow", "MintMismatch"}

\* An approval that fails at the transfer out of the claim vault.
FailsAtVaultTransfer(t, claimant) ==
    /\ ticket[t].exists
    /\ resolve_copyright_claim(t, TRUE, claimant, CollectionMint).err
          \in {"OwnerMismatch", "InsufficientTokenBalance"}

PendingTokens(position, pool) ==
    IF position.exists /\ position.amount_staked > 0
    THEN (position.amount_staked * pool.reward_per_token - position.reward_debt)
             \div REWARD_PRECISION
    ELSE 0

\* C32: a stake_collection_tokens by a staker with a pending reward pays
\* that reward to the staker: what the staker's holding receives besides
\* giving up the staked amount, plus the reward still pending after the
\* stake, is at least the reward that was pending before it.
C32_StakeKeepsAccruedReward ==
    [][StakeStep =>
           LET s == last'.caller
               received == Gain(last'.input.staker_token_account) + last'.input.amount
           IN  received + PendingTokens(staker_position'[s], staking_pool')
                   >= PendingTokens(staker_position[s], staking_pool)]_vars

\* C33: after any sequence of harvest_fees and claim_rewards calls, with
\* any deposits into the fee vault in between, the fee vault holds at least
\* collection.reward_pool_balance tokens.
C33_RewardPoolIsBacked ==
    balance[FeeVault] >= collection_rewards.reward_pool_balance

\* A CopyrightClaim ticket that is unresolved and names only unclaimed
\* indices with a positive proportional payout on a minted collection.
PayableTicket(t) ==
    /\ ticket[t].exists
    /\ ticket[t].ticket_type = "CopyrightClaim"
    /\ ~ticket[t].resolved
    /\ ticket[t].claim_indices # <<>>
    /\ Range(ticket[t].claim_indices) \cap collection_claims.claimed_bitmap = {}
    /\ collection_claims.tokens_minted
    /\ ProportionalPayout(ticket[t].claim_indices) > 0

\* C34: after claim_deadline, whatever ran before, an approving
\* resolve_copyright_claim on a ticket that was created before the deadline
\* for unclaimed indices of a minted collection succeeds and pays the full
\* proportional amount to the claimant's token account.
C34_TicketResolvableAfterDeadline ==
    \A t \in Tickets :
        (now >= collection_claims.claim_deadline /\ PayableTicket(t)) =>
            LET claimant == Holding("p1", CollectionMint)
                r == resolve_copyright_claim(t, TRUE, claimant, CollectionMint)
            IN  /\ r.err = "Ok"
                /\ r.balance[claimant]
                      = balance[claimant] + ProportionalPayout(ticket[t].claim_indices)

\* The token program's errors for an authority that is not the owner of the
\* source or has not signed.
AuthorityErrors == {"OwnerMismatch", "MissingRequiredSignature"}

\* C35: the transfers out of the staking pool's holding and the burn of an
\* escrow's holding present the holding's owner as authority: with a
\* positive reward (or a stake to return) that the pool's holding can pay,
\* claim_staking_rewards and unstake_collection_tokens do not fail with an
\* authority error, and neither does burn_expired_escrow of the tokens in
\* an expired escrow's own holding.
C35_ProgramHoldingsAuthority ==
    LET pool_holding == Holding(StakingPoolPDA, CollectionMint)
    IN  /\ \A s \in Stakers :
              LET reward == PendingTokens(staker_position[s], staking_pool)
                  to == Holding(s, CollectionMint)
              IN  /\ (reward > 0 /\ balance[pool_holding] >= reward) =>
                        claim_staking_rewards(s, to, pool_holding, CollectionMint).err
                            \notin AuthorityErrors
                  /\ \A amount \in StakeAmounts :
                        (/\ 0 < amount /\ amount <= StakedBy(s)
                         /\ balance[pool_holding] >= amount + reward) =>
                            unstake_collection_tokens(s, amount, to, pool_holding,
                                                      CollectionMint).err
                                \notin AuthorityErrors
        /\ \A e \in Purchasers :
              (/\ access_escrow[e].exists
               /\ Elapsed(e) > ESCROW_EXPIRY_SECONDS
               /\ balance[EscrowHolding(e)] > 0) =>
                  burn_expired_escrow(e, EscrowHolding(e)).err \notin AuthorityErrors

(***************************************************************************)
(* Late joiners: stakers and hosting peers that join while the reward      *)
(* accumulators already hold rewards.                                      *)
(***************************************************************************)
\* In this specification the fee vault receives 400 tokens at a time and
\* nothing is paid out of the pool or the vault.
NextLateJoiner ==
    \/ PurchaseAccess
    \/ StakeCollectionTokens
    \/ RegisterCollectionHost
    \/ DepositFees /\ last'.input.amount = 400
    \/ HarvestFees

SpecLateJoiner == InitStaking /\ [][NextLateJoiner]_vars

\* A step that commits register_collection_host.
RegisterStep ==
    /\ last'.op = "register_collection_host"
    /\ ~pinner_state[last'.caller].exists

\* A step that commits the first stake_collection_tokens of a staker.
FirstStakeStep == StakeStep /\ StakedBy(last'.caller) = 0

\* C36: right after register_collection_host the peer's pending reward,
\* shares * acc_reward_per_share - reward_debt, is 0, and right after the
\* first stake_collection_tokens of a staker the staker's pending reward,
\* amount_staked * reward_per_token - reward_debt, is 0, whatever the
\* accumulators hold.
C36_LateJoinerStartsEven ==
    [][/\ RegisterStep =>
              LET pinner == pinner_state'[last'.caller]
              IN  pinner.shares * collection_rewards'.acc_reward_per_share
                      - pinner.reward_debt = 0
       /\ FirstStakeStep =>
              LET position == staker_position'[last'.caller]
              IN  position.amount_staked * staking_pool'.reward_per_token
                      - position.reward_debt = 0]_vars

\* A staker's first stake has just committed while reward_per_token is
\* above 0, and a peer has registered while acc_reward_per_share was.
C36_Witness ==
    /\ last.op = "stake_collection_tokens"
    /\ staking_pool.reward_per_token > 0
    /\ staker_position[last.caller].amount_staked = last.input.amount
    /\ staker_position[last.caller].reward_debt
           = last.input.amount * staking_pool.reward_per_token
    /\ \E w \in Peers :
          /\ pinner_state[w].exists
          /\ pinner_state[w].reward_debt > 0
          /\ pinner_state[w].reward_debt = collection_rewards.acc_reward_per_share

\* C37: the staking pool is solvent: for every position amount_staked times
\* reward_per_token is at least reward_debt, and the pool's holding has at
\* least total_staked plus the pending rewards of all positions, so that
\* every staker can unstake the whole stake and claim the whole reward.
C37_StakingPoolSolvent ==
    /\ \A s \in Stakers :
          staker_position[s].exists =>
              staker_position[s].amount_staked * staking_pool.reward_per_token
                  >= staker_position[s].reward_debt
    /\ balance[Holding(StakingPoolPDA, CollectionMint)]
           >= staking_pool.total_staked
                  + PendingTokens(staker_position["p1"], staking_pool)
                  + PendingTokens(staker_position["p2"], staking_pool)

\* What resolve_copyright_claim has paid out of the claim vault: the vault
\* was minted claim_vault_initial_amount and, when the CollectionState PDA
\* owns it, loses tokens by these payouts only.
PaidFromClaimVault ==
    IF collection_claims.tokens_minted /\ collection_claims.claim_vault.owner = CollectionPDA
    THEN collection_claims.claim_vault_initial_amount
             - balance[collection_claims.claim_vault]
    ELSE 0

\* C38: each video index is paid at most once: what resolve_copyright_claim
\* has paid out of the claim vault is at most
\* floor(claim_vault_initial_amount / total_videos) times the number of
\* bits set in claimed_bitmap, and so at most claim_vault_initial_amount.
C38_EachIndexPaidOnce ==
    /\ PaidFromClaimVault
           <= (collection_claims.claim_vault_initial_amount \div collection_claims.total_videos)
                  * Cardinality(collection_claims.claimed_bitmap)
    /\ PaidFromClaimVault <= collection_claims.claim_vault_initial_amount

\* Tokens leave a claim vault of the CollectionState PDA only in approved
\* copyright claims.
OnlyPayoutsLeaveCollectionVault ==
    [][collection_claims.claim_vault.owner = CollectionPDA
          /\ balance'[collection_claims.claim_vault] < balance[collection_claims.claim_vault]
          => ApprovedClaimStep /\ collection_claims' # collection_claims]_vars

\* Ticket t is a CopyrightClaim ticket that is resolved and approved.
ApprovedCopyrightClaim(tk) ==
    tk.exists /\ tk.ticket_type = "CopyrightClaim" /\ tk.resolved /\ tk.verdict

\* C39: a CopyrightClaim ticket that is resolved with verdict approved has
\* been paid: its indices' bits are set, and the step that marked it
\* resolved and approved is a resolve_copyright_claim that transferred its
\* payout; no operation, resolve_ticket included, marks it without paying.
C39_ApprovedClaimWasPaid ==
    /\ [](\A t \in Tickets :
             ApprovedCopyrightClaim(ticket[t]) =>
                 /\ ticket[t].claim_indices # <<>>
                 /\ Range(ticket[t].claim_indices) \subseteq collection_claims.claimed_bitmap)
    /\ [][\A t \in Tickets :
             (~ApprovedCopyrightClaim(ticket[t]) /\ ApprovedCopyrightClaim(ticket'[t])) =>
                 /\ ApprovedClaimStep
                 /\ last'.input.ticket = t
                 /\ last'.out.payout = ProportionalPayout(ticket'[t].claim_indices)
                 /\ last'.out.payout > 0]_vars

\* C40: burn_expired_escrow destroys tokens only in the holding of the
\* escrow it closes: a burn that commits was given the escrow's own holding
\* and burned its whole balance, no other holding loses tokens by it, and an
\* escrow record is never closed while its own holding still has tokens.
C40_BurnOnlyOwnHolding ==
    [][\A e \in Purchasers :
          /\ BurnCommitted(e) =>
                /\ last'.input.escrow_token_account = EscrowHolding(e)
                /\ balance'[EscrowHolding(e)] = 0
                /\ \A h \in Holdings \ {EscrowHolding(e)} : balance'[h] = balance[h]
          /\ (access_escrow[e].exists /\ ~access_escrow'[e].exists) =>
                balance'[EscrowHolding(e)] = 0]_vars

(***************************************************************************)
(* Operations on different escrows.                                        *)
(***************************************************************************)
\* Both purchasers hold tokens and purchase; the peers' PeerTrustState
\* accounts are initialized during the run.
NextIndependent ==
    \/ Tick
    \/ PurchaseAccess
    \/ InitializePeerTrustState
    \/ ReleaseEscrow
    \/ BurnExpiredEscrow

SpecIndependent == InitStaking /\ [][NextIndependent]_vars

\* What release_escrow(inp) on the escrow of e does in the current state:
\* whether it succeeds and, if so, the escrow record it leaves, what it
\* pays to each listed peer and what it adds to the collection's
\* total_trust_score (and so to the listed peers' trust records).
ReleaseEffect(e, inp) ==
    LET r == release_escrow(e, e, inp)
    IN  IF r.err # "Ok" THEN <<FALSE>>
        ELSE <<TRUE, r.escrow, r.paid, r.total_trust_score - total_trust_score>>

\* What burn_expired_escrow on the escrow of e does in the current state.
BurnEffect(e, escrow_token_account) ==
    LET r == burn_expired_escrow(e, escrow_token_account)
    IN  IF r.err # "Ok" THEN <<FALSE>> ELSE <<TRUE, r.burned>>

\* C31: operations on different escrows are independent: a release_escrow
\* or burn_expired_escrow that commits on the escrow e2 changes neither the
\* outcome (success or failure) nor the effect of any release_escrow (to
\* one or two peers) or burn_expired_escrow on another escrow e1, so that
\* the two can run in either order with the same outcomes and the same
\* final state.
C31_EscrowOperationsIndependent ==
    [][\A e1 \in Purchasers, e2 \in Purchasers :
          (e1 # e2 /\ (ReleaseCommitted(e2) \/ BurnCommitted(e2))) =>
              /\ \A inp \in {x \in WellFormedReleases(e1) : Len(x.peer_wallets) <= 2} :
                    ReleaseEffect(e1, inp)' = ReleaseEffect(e1, inp)
              /\ \A h \in BurnSources(e1) :
                    BurnEffect(e1, h)' = BurnEffect(e1, h)]_vars

====
